---- MODULE Spec2Model ----
(***************************************************************************)
(* Neuro-lens meeting agent: the cognitive-signal estimation and tracking  *)
(* core.  KalmanFilter and CognitiveModel (types.ts), the                  *)
(* Dashboard sampling loop with its alert counters (Dashboard.tsx) and the *)
(* MeetingAgent frame analysis (MeetingAgent.tsx).                         *)
(*                                                                         *)
(* Numbers.  A JavaScript number is modelled as a record [k, v]: k = "fin" *)
(* with v the value in thousandths (fixed point, rounded to nearest), or   *)
(* k = "nan", or k = "inf" with v = 1 / -1 for +Infinity / -Infinity.      *)
(***************************************************************************)
EXTENDS Integers, Sequences, FiniteSets, TLC

SCALE == 10 * 100

Fin(v) == [k |-> "fin", v |-> v]
Num(n) == Fin(n * SCALE)
NaN == [k |-> "nan", v |-> 0]
PInf == [k |-> "inf", v |-> 1]
NInf == [k |-> "inf", v |-> -1]

IsNaN(a) == a.k = "nan"
IsFinite(a) == a.k = "fin"
Sign(n) == IF n > 0 THEN 1 ELSE IF n < 0 THEN -1 ELSE 0
Abs(n) == IF n < 0 THEN -n ELSE n

\* a / b rounded to the nearest integer (b # 0)
RDiv(a, b) == IF b > 0 THEN (2 * a + b) \div (2 * b)
                       ELSE (2 * (-a) + (-b)) \div (2 * (-b))

FNeg(a) == IF a.k = "nan" THEN NaN ELSE [k |-> a.k, v |-> -a.v]

FAdd(a, b) ==
  IF IsNaN(a) \/ IsNaN(b) THEN NaN
  ELSE IF a.k = "inf" /\ b.k = "inf" THEN (IF a.v = b.v THEN a ELSE NaN)
  ELSE IF a.k = "inf" THEN a
  ELSE IF b.k = "inf" THEN b
  ELSE Fin(a.v + b.v)

FSub(a, b) == FAdd(a, FNeg(b))

FMul(a, b) ==
  IF IsNaN(a) \/ IsNaN(b) THEN NaN
  ELSE IF a.k = "inf" \/ b.k = "inf"
       THEN (IF a.v = 0 \/ b.v = 0 THEN NaN
             ELSE [k |-> "inf", v |-> Sign(a.v) * Sign(b.v)])
  ELSE Fin(RDiv(a.v * b.v, SCALE))

FDiv(a, b) ==
  IF IsNaN(a) \/ IsNaN(b) THEN NaN
  ELSE IF a.k = "inf" THEN (IF b.k = "inf" THEN NaN
                            ELSE [k |-> "inf", v |-> a.v * (IF b.v < 0 THEN -1 ELSE 1)])
  ELSE IF b.k = "inf" THEN Fin(0)
  ELSE IF b.v = 0 THEN (IF a.v = 0 THEN NaN ELSE [k |-> "inf", v |-> Sign(a.v)])
  ELSE Fin(RDiv(a.v * SCALE, b.v))

\* a < b, a > b as JavaScript compares numbers: false when either is NaN
FLt(a, b) ==
  IF IsNaN(a) \/ IsNaN(b) THEN FALSE
  ELSE IF a.k = "inf" THEN a.v < 0 /\ ~(b.k = "inf" /\ b.v < 0)
  ELSE IF b.k = "inf" THEN b.v > 0
  ELSE a.v < b.v

FGt(a, b) == FLt(b, a)

\* Math.max / Math.min: NaN when either argument is NaN
MathMax(a, b) == IF IsNaN(a) \/ IsNaN(b) THEN NaN ELSE IF FLt(a, b) THEN b ELSE a
MathMin(a, b) == IF IsNaN(a) \/ IsNaN(b) THEN NaN ELSE IF FLt(b, a) THEN b ELSE a
MathAbs(a) == IF a.k = "fin" THEN Fin(Abs(a.v)) ELSE IF a.k = "inf" THEN PInf ELSE NaN

\* parseFloat(x.toFixed(2)): two decimals; NaN and the infinities print and
\* parse back as themselves
ToFixed2(a) == IF a.k = "fin" THEN Fin(RDiv(a.v, 10) * 10) ELSE a

InRange0to100(a) == a.k = "fin" /\ 0 <= a.v /\ a.v <= 100 * SCALE

(***************************************************************************)
(* KalmanFilter (types.ts).  A filter is a record of its fields;           *)
(* A = 1, B = 0, C = 1 are the field initialisers.                         *)
(***************************************************************************)
KA == Num(1)
KB == Num(0)
KC == Num(1)

NewKalmanFilter(processNoise, measurementNoise) ==
  [R |-> processNoise, Q |-> measurementNoise, cov |-> NaN, x |-> NaN]

KalmanSeedAsDelta(f, measurement) ==
  [f EXCEPT !.x = FMul(Fin(500), measurement), !.cov = f.Q]

\* the first branch of filter: seed from the measurement
KalmanSeed(f, measurement) ==
  [f EXCEPT !.x = FMul(FDiv(Num(1), KC), measurement),
            !.cov = FMul(FMul(FDiv(Num(1), KC), f.Q), FDiv(Num(1), KC))]

KalmanCorrectDoubleGain(f, measurement) ==
  LET predX == FAdd(FMul(KA, f.x), FMul(KB, Num(0)))
      predCov == FAdd(FMul(FMul(KA, f.cov), KA), f.R)
      K == FDiv(FMul(predCov, KC), FAdd(FMul(FMul(KC, predCov), KC), f.Q))
  IN  [f EXCEPT !.x = FAdd(predX, FMul(FMul(Num(2), K), FSub(measurement, FMul(KC, predX)))),
                !.cov = FSub(predCov, FMul(FMul(K, KC), predCov))]

\* the second branch of filter: predict and correct
KalmanCorrect(f, measurement) ==
  LET predX == FAdd(FMul(KA, f.x), FMul(KB, Num(0)))
      predCov == FAdd(FMul(FMul(KA, f.cov), KA), f.R)
      K == FDiv(FMul(predCov, KC), FAdd(FMul(FMul(KC, predCov), KC), f.Q))
  IN  [f EXCEPT !.x = FAdd(predX, FMul(K, FSub(measurement, FMul(KC, predX)))),
                !.cov = FSub(predCov, FMul(FMul(K, KC), predCov))]

\* a filter that seeds on its first call only
KalmanFilterSeedsOnce(f, measurement) ==
  IF IsNaN(f.cov) THEN KalmanSeed(f, measurement) ELSE KalmanCorrect(f, measurement)

\* filter(measurement): the filter after the call; the call returns its x
KalmanFilter(f, measurement) ==
  IF IsNaN(f.x) THEN KalmanSeed(f, measurement) ELSE KalmanCorrect(f, measurement)

(***************************************************************************)
(* CognitiveModel (types.ts).                                              *)
(***************************************************************************)
\* Math.pow(d, 1.6) for d = 0..50 whole degrees, in thousandths
Pow16Table ==
  << 0, 1000, 3031, 5800, 9190, 13133, 17581, 22499, 27858, 33635, 39811, 46369,
     53295, 60577, 68203, 76163, 84449, 93050, 101961, 111175, 120684, 130482,
     140565, 150926, 161562, 172466, 183636, 195066, 206753, 218694, 230884,
     243321, 256000, 268920, 282076, 295467, 309089, 322941, 337019, 351320,
     365844, 380587, 395548, 410723, 426113, 441713, 457523, 473540, 489763,
     506190, 522820 >>

\* Math.pow(a, 1.6) of a non-negative a: NaN for NaN, Infinity for Infinity
MathPow16(a) ==
  IF a.k = "nan" THEN NaN
  ELSE IF a.k = "inf" THEN PInf
  ELSE Fin(Pow16Table[(a.v \div SCALE) + 1])

Unclamped(a) == a

Clamp0to100(a) == MathMax(Num(0), MathMin(Num(100), a))

NewCognitiveModel ==
  [state |-> [attention |-> Num(50), stress |-> Num(30), curiosity |-> Num(60)],
   attentionFilter |-> NewKalmanFilter(Fin(100), Num(10)),
   stressFilter |-> NewKalmanFilter(Fin(100), Num(5)),
   curiosityFilter |-> NewKalmanFilter(Fin(100), Num(8))]

\* 1. attention from head pose and eye aspect ratio, clamped
RawAttention(input) ==
  LET yawPenalty == MathPow16(MathAbs(input.yaw))
      pitchPenalty == MathPow16(MathAbs(FSub(input.pitch, Num(5))))
      base == FSub(Num(100), FAdd(yawPenalty, pitchPenalty))
      eyes == IF FLt(input.ear, Fin(200)) THEN FSub(base, Num(50)) ELSE base
  IN  Clamp0to100(eyes)

BlinkStressAtOrAbove(blinkRate) ==
  IF ~FLt(blinkRate, Num(30)) THEN Num(30)
  ELSE IF ~FLt(blinkRate, Num(20)) THEN Num(15)
  ELSE IF FLt(blinkRate, Num(5)) THEN Num(10)
  ELSE Num(0)

\* the blink-rate step of the stress baseline
BlinkStress(blinkRate) ==
  IF FGt(blinkRate, Num(30)) THEN Num(30)
  ELSE IF FGt(blinkRate, Num(20)) THEN Num(15)
  ELSE IF FLt(blinkRate, Num(5)) THEN Num(10)
  ELSE Num(0)

\* stressBase after the blink-rate analysis
StressBaseline(blinkRate) == FAdd(Num(30), BlinkStress(blinkRate))

\* 2. stress before the clamp: baseline, blink rate, micro-expressions
StressBase(input) ==
  LET e == input.expressionConfidence
      s0 == StressBaseline(input.blinkRate)
      s1 == FAdd(s0, FMul(e.angry, Num(60)))
      s2 == FAdd(s1, FMul(e.fearful, Num(70)))
      s3 == FAdd(s2, FMul(e.neutral, Num(-10)))
  IN  FSub(s3, FMul(e.happy, Num(30)))

\* 3. curiosity before the clamp, from this call's smoothed attention and stress
CuriosityBase(input, smoothedAttention, smoothedStress) ==
  LET e == input.expressionConfidence
      c0 == Num(50)
      c1 == IF FGt(smoothedAttention, Num(80)) /\ FLt(smoothedStress, Num(40))
            THEN FAdd(c0, Num(20)) ELSE c0
      c2 == IF FLt(input.pitch, Num(-5)) /\ FGt(input.pitch, Num(-25))
            THEN FAdd(c1, Num(15)) ELSE c1
      c3 == FAdd(c2, FMul(e.surprised, Num(50)))
  IN  FAdd(c3, FMul(e.happy, Num(20)))

\* the data point update returns: the state rounded to two decimals
DataPoint(st) ==
  [attention |-> ToFixed2(st.attention),
   stress |-> ToFixed2(st.stress),
   curiosity |-> ToFixed2(st.curiosity)]

\* update(input): the model after the call
CognitiveUpdate(m, input) ==
  LET af == KalmanFilter(m.attentionFilter, RawAttention(input))
      sf == KalmanFilter(m.stressFilter, Clamp0to100(StressBase(input)))
      cf == KalmanFilter(m.curiosityFilter,
                         Clamp0to100(CuriosityBase(input, af.x, sf.x)))
  IN  [state |-> [attention |-> af.x, stress |-> sf.x, curiosity |-> cf.x],
       attentionFilter |-> af, stressFilter |-> sf, curiosityFilter |-> cf]

NoExpression ==
  [neutral |-> Num(0), happy |-> Num(0), angry |-> Num(0), fearful |-> Num(0),
   surprised |-> Num(0)]

BiometricInput(yaw, pitch, ear, blinkRate, expr) ==
  [yaw |-> yaw, pitch |-> pitch, roll |-> Num(0), ear |-> ear,
   blinkRate |-> blinkRate, expressionConfidence |-> expr,
   interactionLevel |-> Num(0)]

\* the input analyzeBiometrics feeds when no face is detected
FaceLostInput == BiometricInput(Num(45), Num(45), Fin(300), Num(0), NoExpression)

\* The feature vectors the model is driven with: a calm focused face, eyes
\* closing, a stressed face, mild blinking, a forward lean with surprise, the
\* face-lost vector, and the yaw of a degenerate landmark set (eyeDist = 0
\* makes yaw 0/0 = NaN or x/0 = Infinity in analyzeBiometrics).
BiometricInputs ==
  { BiometricInput(Num(0), Num(5), Fin(250), Num(10),
                   [NoExpression EXCEPT !.neutral = Num(1)]),
    BiometricInput(Num(0), Num(5), Fin(150), Num(3), NoExpression),
    BiometricInput(Num(10), Num(0), Fin(250), Num(31),
                   [NoExpression EXCEPT !.angry = Num(1), !.fearful = Num(1)]),
    BiometricInput(Num(5), Num(10), Fin(250), Num(21),
                   [NoExpression EXCEPT !.happy = Num(1)]),
    BiometricInput(Num(0), Num(-10), Fin(300), Num(10),
                   [NoExpression EXCEPT !.surprised = Num(1), !.happy = Fin(500)]),
    FaceLostInput,
    BiometricInput(NaN, Num(5), Fin(250), Num(10), NoExpression),
    BiometricInput(PInf, Num(5), Fin(250), Num(10), NoExpression) }

(***************************************************************************)
(* MeetingAgent.tsx: the participant metrics and determineBodyLanguage.    *)
(***************************************************************************)
Slots == 0..3

Participant(attention, stress, curiosity, engagementScore, x, y) ==
  [attention |-> Num(attention), stress |-> Num(stress), curiosity |-> Num(curiosity),
   activity |-> Num(0), engagementScore |-> Num(engagementScore),
   isSpeaking |-> FALSE, bodyLanguage |-> "Listening",
   box |-> [x |-> Num(x), y |-> Num(y), w |-> Num(40), h |-> Num(40)]]

\* useState<ParticipantMetric[]>: the 2x2 grid of participants
InitialParticipants ==
  [idx \in Slots |->
     CASE idx = 0 -> Participant(80, 20, 60, 75, 5, 5)
       [] idx = 1 -> Participant(75, 25, 55, 70, 55, 5)
       [] idx = 2 -> Participant(85, 15, 70, 80, 5, 55)
       [] idx = 3 -> Participant(70, 30, 50, 65, 55, 55)]

DetermineBodyLanguageEngagementFirst(isSpeaking, activity, stress, attention, curiosity) ==
  IF isSpeaking THEN "Gesturing"
  ELSE IF FGt(attention, Num(80)) /\ FGt(curiosity, Num(70)) THEN "Leaning In"
  ELSE IF FGt(stress, Num(75)) /\ FGt(activity, Num(30)) THEN "Fidgeting"
  ELSE IF FGt(stress, Num(75)) /\ FLt(activity, Num(10)) THEN "Arms Crossed"
  ELSE IF FGt(activity, Num(15)) /\ FLt(activity, Num(40)) /\ FGt(attention, Num(60))
    THEN "Nodding"
  ELSE IF FLt(attention, Num(40)) /\ FLt(stress, Num(50)) /\ FLt(activity, Num(10))
    THEN "Slouching"
  ELSE "Listening"

\* the rules after the high-stress block of determineBodyLanguage
BodyLanguageEngagement(activity, stress, attention, curiosity) ==
  IF FGt(attention, Num(80)) /\ FGt(curiosity, Num(70)) THEN "Leaning In"
  ELSE IF FGt(activity, Num(15)) /\ FLt(activity, Num(40)) /\ FGt(attention, Num(60))
    THEN "Nodding"
  ELSE IF FLt(attention, Num(40)) /\ FLt(stress, Num(50)) /\ FLt(activity, Num(10))
    THEN "Slouching"
  ELSE "Listening"

\* determineBodyLanguage(isSpeaking, activity, stress, attention, curiosity)
DetermineBodyLanguage(isSpeaking, activity, stress, attention, curiosity) ==
  IF isSpeaking THEN "Gesturing"
  ELSE IF FGt(stress, Num(75))
    THEN (IF FGt(activity, Num(30)) THEN "Fidgeting"
          ELSE IF FLt(activity, Num(10)) THEN "Arms Crossed"
          ELSE BodyLanguageEngagement(activity, stress, attention, curiosity))
  ELSE BodyLanguageEngagement(activity, stress, attention, curiosity)

(***************************************************************************)
(* MeetingAgent.tsx: analyzeFrame in demo mode.  Every Math.random() of    *)
(* one map callback is a number in [0,1), here a field of the record d in  *)
(* thousandths; the same record serves the four participants of a frame.   *)
(***************************************************************************)
Draw(speakRoll, act, att, str, cur, spike, fidget, bored, eng, bx, by) ==
  [speakRoll |-> Fin(speakRoll), act |-> Fin(act), att |-> Fin(att), str |-> Fin(str),
   cur |-> Fin(cur), spike |-> Fin(spike), fidget |-> Fin(fidget), bored |-> Fin(bored),
   eng |-> Fin(eng), bx |-> Fin(bx), by |-> Fin(by)]

\* the draws a frame is driven with: all low, all middling, a speaker starting
\* with all else high, a speaker stopping in a stress spike with high activity,
\* a stress spike with low activity, a boredom spike
DemoDraws ==
  { Draw(0, 0, 0, 0, 0, 0, 0, 0, 0, 0, 0),
    Draw(500, 500, 500, 500, 500, 500, 500, 500, 500, 500, 500),
    Draw(990, 999, 999, 999, 999, 500, 500, 500, 999, 999, 999),
    Draw(950, 500, 500, 500, 500, 995, 900, 500, 500, 500, 500),
    Draw(500, 500, 500, 500, 500, 995, 100, 500, 500, 500, 500),
    Draw(500, 500, 500, 500, 500, 500, 500, 995, 500, 500, 500) }

\* (Math.random() - 0.5) * n
Jitter(r, n) == FMul(FSub(r, Fin(500)), Num(n))

\* speaking after the two speakRoll tests
DemoSpeaking(wasSpeaking, speakRoll) ==
  LET stopped == IF wasSpeaking /\ FGt(speakRoll, Fin(920)) THEN FALSE ELSE wasSpeaking
  IN  IF ~stopped /\ FGt(speakRoll, Fin(980)) THEN TRUE ELSE stopped

\* an engagement score with the weights of attention and curiosity exchanged
EngagementWeightsExchanged(attention, curiosity, activity) ==
  FAdd(FAdd(FMul(attention, Fin(350)), FMul(curiosity, Fin(450))),
       FMul(MathMin(Num(100), FMul(activity, Num(2))), Fin(200)))

\* the weighted engagement score before the speaking override
Engagement(attention, curiosity, activity) ==
  FAdd(FAdd(FMul(attention, Fin(450)), FMul(curiosity, Fin(350))),
       FMul(MathMin(Num(100), FMul(activity, Num(2))), Fin(200)))

\* the wandering box of the simulation
DemoBox(box, d) ==
  [box EXCEPT !.x = FAdd(box.x, Jitter(d.bx, 2)),
              !.y = FAdd(box.y, Jitter(d.by, 2))]

\* the map callback of the demo branch
DemoParticipant(p, d) ==
  LET speaking == DemoSpeaking(p.isSpeaking, d.speakRoll)
      spike == FGt(d.spike, Fin(990))
      bored == FGt(d.bored, Fin(990))
      t0 == FAdd(IF speaking THEN Num(70) ELSE Num(10), FMul(d.act, Num(20)))
      t1 == IF spike THEN (IF FGt(d.fidget, Fin(500)) THEN Num(50) ELSE Num(5)) ELSE t0
      targetActivity == IF bored THEN Num(2) ELSE t1
      a0 == FAdd(p.attention, Jitter(d.att, 4))
      a1 == IF speaking THEN MathMin(Num(100), FAdd(a0, Num(2))) ELSE a0
      newAttention == IF bored THEN Num(20) ELSE a1
      s0 == FAdd(p.stress, Jitter(d.str, 4))
      s1 == IF spike THEN Num(85) ELSE s0
      newStress == IF bored THEN Num(20) ELSE s1
      c0 == FAdd(p.curiosity, Jitter(d.cur, 4))
      newCuriosity == IF speaking THEN MathMin(Num(100), FAdd(c0, Num(1))) ELSE c0
      smoothedActivity == FAdd(FMul(p.activity, Fin(800)), FMul(targetActivity, Fin(200)))
      smoothedAttention == Clamp0to100(newAttention)
      smoothedStress == Clamp0to100(newStress)
      smoothedCuriosity == Clamp0to100(newCuriosity)
      engagement == IF speaking THEN FAdd(Num(95), FMul(d.eng, Num(5)))
                    ELSE Engagement(smoothedAttention, smoothedCuriosity, smoothedActivity)
  IN  [p EXCEPT !.activity = smoothedActivity,
                !.isSpeaking = speaking,
                !.attention = smoothedAttention,
                !.stress = smoothedStress,
                !.curiosity = smoothedCuriosity,
                !.engagementScore = MathMin(Num(100), MathMax(Num(0), engagement)),
                !.bodyLanguage = DetermineBodyLanguage(speaking, smoothedActivity,
                                   smoothedStress, smoothedAttention, smoothedCuriosity),
                !.box = DemoBox(p.box, d)]

(***************************************************************************)
(* MeetingAgent.tsx: analyzeFrame in real mode.  The frame is scaled down: *)
(* a quadrant of the heatmap is QuadCellsX x QuadCellsY cells (20 x 15 in  *)
(* the source), a cell covers 8 x 8 pixels of the frame as in the source,  *)
(* and all pixels of a cell share one colour.  Heat is in thousandths.     *)
(***************************************************************************)
QuadCellsX == 2
QuadCellsY == 1
GRID_W == 2 * QuadCellsX
GRID_H == 2 * QuadCellsY
CellPixels == 320 \div 40    \* width / GRID_W = height / GRID_H in the source
width == GRID_W * CellPixels
height == GRID_H * CellPixels
step == 4
NumCells == GRID_W * GRID_H

\* the colours of a frame's pixels: r, g, b
Colour(name) ==
  CASE name = "dark" -> [r |-> 17, g |-> 24, b |-> 39]
    [] name = "bright" -> [r |-> 250, g |-> 250, b |-> 250]
    [] name = "skin" -> [r |-> 200, g |-> 150, b |-> 120]
    [] name = "lit skin" -> [r |-> 225, g |-> 170, b |-> 135]

\* isSkinTone(r, g, b)
isSkinTone(c) ==
  c.r > 95 /\ c.g > 40 /\ c.b > 20 /\ c.r > c.g /\ c.r > c.b /\ Abs(c.r - c.g) > 15

\* the frames the video shows: all dark, all bright, a face filling the
\* top-left quadrant, a face in the last cell of the bottom-right quadrant
QuadrantOfCell(g) ==
  (IF g % GRID_W >= QuadCellsX THEN 1 ELSE 0) + (IF g \div GRID_W >= QuadCellsY THEN 2 ELSE 0)
Frames ==
  { [i \in 1..NumCells |-> "dark"],
    [i \in 1..NumCells |-> "bright"],
    [i \in 1..NumCells |-> IF QuadrantOfCell(i - 1) = 0 THEN "skin" ELSE "dark"],
    [i \in 1..NumCells |-> IF i = NumCells THEN "skin" ELSE "dark"] }

\* the frames the lone heatmap is fed: all dark, and a face filling the
\* top-left quadrant in two lights
HeatFrames ==
  { [i \in 1..NumCells |-> "dark"],
    [i \in 1..NumCells |-> IF QuadrantOfCell(i - 1) = 0 THEN "skin" ELSE "dark"],
    [i \in 1..NumCells |-> IF QuadrantOfCell(i - 1) = 0 THEN "lit skin" ELSE "dark"] }

\* the mean of getByteFrequencyData: silence, speech, loud speech
AudioVolumes == { Num(0), Num(50), Num(120) }

\* the colour of pixel (x, y) of a frame
PixelColour(frame, x, y) ==
  Colour(frame[(y \div CellPixels) * GRID_W + (x \div CellPixels) + 1])

DecayHeatmapByTenth(heatmap) == [i \in 1..Len(heatmap) |-> RDiv(heatmap[i] * 900, SCALE)]

\* heatmap[i] *= 0.96 for every cell
DecayHeatmap(heatmap) == [i \in 1..Len(heatmap) |-> RDiv(heatmap[i] * 960, SCALE)]

SamplesPerRow == (width + step - 1) \div step
NumSamples == SamplesPerRow * ((height + step - 1) \div step)

\* the n-th pixel the loop visits, in loop order
SampleX(n) == (n % SamplesPerRow) * step
SampleY(n) == (n \div SamplesPerRow) * step

\* diff, qIdx, gIdx and weight of the loop body at the n-th pixel
PixelDiff(currentData, prevData, n) ==
  LET c == PixelColour(currentData, SampleX(n), SampleY(n))
      q == PixelColour(prevData, SampleX(n), SampleY(n))
  IN  Abs(c.r - q.r) + Abs(c.g - q.g) + Abs(c.b - q.b)
SampleQuadrant(n) ==
  (IF 2 * SampleX(n) >= width THEN 1 ELSE 0) + (IF 2 * SampleY(n) >= height THEN 2 ELSE 0)
SampleCell(n) ==
  (SampleY(n) \div (height \div GRID_H)) * GRID_W + (SampleX(n) \div (width \div GRID_W))
SampleWeight(currentData, n) ==
  IF isSkinTone(PixelColour(currentData, SampleX(n), SampleY(n))) THEN 4 ELSE 1

Samples == 0..(NumSamples - 1)

\* term[lo] + ... + term[hi]
RECURSIVE SumSamples(_, _, _)
SumSamples(term, lo, hi) ==
  IF lo > hi THEN 0
  ELSE IF lo = hi THEN term[lo]
  ELSE SumSamples(term, lo, (lo + hi) \div 2) + SumSamples(term, (lo + hi) \div 2 + 1, hi)

\* quadStats after the pixel loop
QuadStats(currentData, prevData) ==
  [qIdx \in Slots |->
     [motion |-> SumSamples([n \in Samples |->
                               IF SampleQuadrant(n) = qIdx
                                  /\ PixelDiff(currentData, prevData, n) > 40
                               THEN PixelDiff(currentData, prevData, n) ELSE 0],
                            0, NumSamples - 1),
      pixels |-> SumSamples([n \in Samples |-> IF SampleQuadrant(n) = qIdx THEN 1 ELSE 0],
                            0, NumSamples - 1)]]

HeatAfterLoopUncapped(heatmap, currentData, prevData) ==
  [i \in 1..Len(heatmap) |->
     heatmap[i] + SumSamples([n \in Samples |->
                                IF SampleCell(n) = i - 1
                                   /\ PixelDiff(currentData, prevData, n) > 40
                                THEN SampleWeight(currentData, n) * 2 * SCALE
                                ELSE 0],
                             0, NumSamples - 1)]

\* the heatmap after the pixel loop: every moving pixel of a cell adds
\* weight * 2 under Math.min(100, ...); the additions are positive, so the
\* cell ends at the minimum of 100 and its decayed heat plus their sum
HeatAfterLoop(heatmap, currentData, prevData) ==
  [i \in 1..Len(heatmap) |->
     LET added == SumSamples([n \in Samples |->
                                IF SampleCell(n) = i - 1
                                   /\ PixelDiff(currentData, prevData, n) > 40
                                   /\ SampleCell(n) < Len(heatmap)
                                THEN SampleWeight(currentData, n) * 2 * SCALE
                                ELSE 0],
                             0, NumSamples - 1)
     IN  IF heatmap[i] + added > 100 * SCALE THEN 100 * SCALE ELSE heatmap[i] + added]

EmptyQuadStats == [q \in Slots |-> [motion |-> 0, pixels |-> 0]]
NewHeatmap == [i \in 1..NumCells |-> 0]

\* an ingestion that compares the first frame with an all dark one
IngestFirstAgainstDark(heatmapRef, currentData, prevData) ==
  LET heatmap == IF heatmapRef = << >> THEN NewHeatmap ELSE heatmapRef
      prev == IF prevData = << >> THEN [i \in 1..NumCells |-> "dark"] ELSE prevData
  IN  [heatmap |-> HeatAfterLoop(DecayHeatmap(heatmap), currentData, prev),
       quadStats |-> QuadStats(currentData, prev)]

\* decay, then the pixel loop when there is a previous frame (<< >> is null)
Ingest(heatmapRef, currentData, prevData) ==
  LET heatmap == IF heatmapRef = << >> THEN NewHeatmap ELSE heatmapRef
  IN  IF prevData = << >>
        THEN [heatmap |-> DecayHeatmap(heatmap), quadStats |-> EmptyQuadStats]
      ELSE [heatmap |-> HeatAfterLoop(DecayHeatmap(heatmap), currentData, prevData),
            quadStats |-> QuadStats(currentData, prevData)]

\* a / b in thousandths for integers a >= 0, b > 0, without a wide product
Quotient(a, b) == Fin((a \div b) * SCALE + RDiv((a % b) * SCALE, b))

\* the heat-weighted sums over the cells of quadrant idx with val > 1
QuadrantCells(idx) ==
  { g \in 0..(NumCells - 1) :
      /\ g % GRID_W >= (idx % 2) * (GRID_W \div 2)
      /\ g % GRID_W < (idx % 2) * (GRID_W \div 2) + (GRID_W \div 2)
      /\ g \div GRID_W >= (idx \div 2) * (GRID_H \div 2)
      /\ g \div GRID_W < (idx \div 2) * (GRID_H \div 2) + (GRID_H \div 2) }

RECURSIVE SumOver(_, _, _)
SumOver(cells, heatmap, coord) ==
  IF cells = {} THEN 0
  ELSE LET g == CHOOSE c \in cells : TRUE
           val == heatmap[g + 1]
           term == IF val > SCALE
                   THEN (CASE coord = "x" -> (g % GRID_W) * val
                           [] coord = "y" -> (g \div GRID_W) * val
                           [] coord = "heat" -> val)
                   ELSE 0
       IN  term + SumOver(cells \ {g}, heatmap, coord)

quadrantDefaults ==
  [idx \in Slots |->
     CASE idx = 0 -> [x |-> Num(5), y |-> Num(5)]
       [] idx = 1 -> [x |-> Num(55), y |-> Num(5)]
       [] idx = 2 -> [x |-> Num(5), y |-> Num(55)]
       [] idx = 3 -> [x |-> Num(55), y |-> Num(55)]]

\* targetBoxX, targetBoxY after the centroid step and the clamp
TargetBox(p, idx, heatmap) ==
  LET cells == QuadrantCells(idx)
      totalHeat == SumOver(cells, heatmap, "heat")
      sumX == SumOver(cells, heatmap, "x")
      sumY == SumOver(cells, heatmap, "y")
      tracked == totalHeat > 50 * SCALE
      pctX == FMul(FDiv(Quotient(sumX, totalHeat), Num(GRID_W)), Num(100))
      pctY == FMul(FDiv(Quotient(sumY, totalHeat), Num(GRID_H)), Num(100))
      tx == IF tracked THEN FSub(pctX, FDiv(p.box.w, Num(2)))
            ELSE FAdd(FMul(p.box.x, Fin(980)), FMul(quadrantDefaults[idx].x, Fin(20)))
      ty == IF tracked THEN FSub(pctY, FDiv(p.box.h, Num(2)))
            ELSE FAdd(FMul(p.box.y, Fin(980)), FMul(quadrantDefaults[idx].y, Fin(20)))
  IN  [x |-> MathMax(Num(0), MathMin(FSub(Num(100), p.box.w), tx)),
       y |-> MathMax(Num(0), MathMin(FSub(Num(100), p.box.h), ty))]

\* Math.min(100, (q.motion / (q.pixels || 1)) * 3)
NormalizedActivity(q) ==
  LET rawActivity == RDiv(q.motion * SCALE, IF q.pixels = 0 THEN 1 ELSE q.pixels)
  IN  MathMin(Num(100), Fin(rawActivity * 3))

\* a map callback that takes motion alone for speech
RealParticipantSpeaksOnMotion(p, idx, q, heatmap, audioVolume) ==
  LET isAudioActive == FGt(audioVolume, Num(15))
      normalizedActivity == NormalizedActivity(q)
      likelySpeaking == FGt(normalizedActivity, Num(10))
      targetAttention == IF likelySpeaking THEN Num(90)
                         ELSE FSub(Num(100), normalizedActivity)
      targetStress == IF likelySpeaking /\ FGt(audioVolume, Num(100))
                      THEN FAdd(FMul(normalizedActivity, Fin(500)), Num(20))
                      ELSE FMul(normalizedActivity, Fin(500))
      targetCuriosity == IF FGt(normalizedActivity, Num(5)) /\ FLt(normalizedActivity, Num(25))
                         THEN Num(80) ELSE Num(50)
      smoothedActivity == FAdd(FMul(p.activity, Fin(800)), FMul(normalizedActivity, Fin(200)))
      smoothedAttention == FAdd(FMul(p.attention, Fin(900)), FMul(targetAttention, Fin(100)))
      smoothedStress == FAdd(FMul(p.stress, Fin(900)), FMul(targetStress, Fin(100)))
      smoothedCuriosity == FAdd(FMul(p.curiosity, Fin(900)), FMul(targetCuriosity, Fin(100)))
      engagement == IF likelySpeaking THEN Num(95)
                    ELSE Engagement(smoothedAttention, smoothedCuriosity, smoothedActivity)
      target == TargetBox(p, idx, heatmap)
  IN  [p EXCEPT !.activity = smoothedActivity,
                !.isSpeaking = likelySpeaking,
                !.attention = smoothedAttention,
                !.stress = smoothedStress,
                !.curiosity = smoothedCuriosity,
                !.engagementScore = MathMin(Num(100), MathMax(Num(0), engagement)),
                !.bodyLanguage = DetermineBodyLanguage(likelySpeaking, smoothedActivity,
                                   smoothedStress, smoothedAttention, smoothedCuriosity),
                !.box = [p.box EXCEPT
                           !.x = FAdd(FMul(p.box.x, Fin(800)), FMul(target.x, Fin(200))),
                           !.y = FAdd(FMul(p.box.y, Fin(800)), FMul(target.y, Fin(200)))]]

\* a map callback that moves the box half of the way to its target
RealParticipantEvenBlend(p, idx, q, heatmap, audioVolume) ==
  LET isAudioActive == FGt(audioVolume, Num(15))
      normalizedActivity == NormalizedActivity(q)
      likelySpeaking == isAudioActive /\ FGt(normalizedActivity, Num(10))
      targetAttention == IF likelySpeaking THEN Num(90)
                         ELSE FSub(Num(100), normalizedActivity)
      targetStress == IF likelySpeaking /\ FGt(audioVolume, Num(100))
                      THEN FAdd(FMul(normalizedActivity, Fin(500)), Num(20))
                      ELSE FMul(normalizedActivity, Fin(500))
      targetCuriosity == IF FGt(normalizedActivity, Num(5)) /\ FLt(normalizedActivity, Num(25))
                         THEN Num(80) ELSE Num(50)
      smoothedActivity == FAdd(FMul(p.activity, Fin(800)), FMul(normalizedActivity, Fin(200)))
      smoothedAttention == FAdd(FMul(p.attention, Fin(900)), FMul(targetAttention, Fin(100)))
      smoothedStress == FAdd(FMul(p.stress, Fin(900)), FMul(targetStress, Fin(100)))
      smoothedCuriosity == FAdd(FMul(p.curiosity, Fin(900)), FMul(targetCuriosity, Fin(100)))
      engagement == IF likelySpeaking THEN Num(95)
                    ELSE Engagement(smoothedAttention, smoothedCuriosity, smoothedActivity)
      target == TargetBox(p, idx, heatmap)
  IN  [p EXCEPT !.activity = smoothedActivity,
                !.isSpeaking = likelySpeaking,
                !.attention = smoothedAttention,
                !.stress = smoothedStress,
                !.curiosity = smoothedCuriosity,
                !.engagementScore = MathMin(Num(100), MathMax(Num(0), engagement)),
                !.bodyLanguage = DetermineBodyLanguage(likelySpeaking, smoothedActivity,
                                   smoothedStress, smoothedAttention, smoothedCuriosity),
                !.box = [p.box EXCEPT
                           !.x = FAdd(FMul(p.box.x, Fin(500)), FMul(target.x, Fin(500))),
                           !.y = FAdd(FMul(p.box.y, Fin(500)), FMul(target.y, Fin(500)))]]

\* the map callback of the real branch
RealParticipant(p, idx, q, heatmap, audioVolume) ==
  LET isAudioActive == FGt(audioVolume, Num(15))
      normalizedActivity == NormalizedActivity(q)
      likelySpeaking == isAudioActive /\ FGt(normalizedActivity, Num(10))
      targetAttention == IF likelySpeaking THEN Num(90)
                         ELSE FSub(Num(100), normalizedActivity)
      targetStress == IF likelySpeaking /\ FGt(audioVolume, Num(100))
                      THEN FAdd(FMul(normalizedActivity, Fin(500)), Num(20))
                      ELSE FMul(normalizedActivity, Fin(500))
      targetCuriosity == IF FGt(normalizedActivity, Num(5)) /\ FLt(normalizedActivity, Num(25))
                         THEN Num(80) ELSE Num(50)
      smoothedActivity == FAdd(FMul(p.activity, Fin(800)), FMul(normalizedActivity, Fin(200)))
      smoothedAttention == FAdd(FMul(p.attention, Fin(900)), FMul(targetAttention, Fin(100)))
      smoothedStress == FAdd(FMul(p.stress, Fin(900)), FMul(targetStress, Fin(100)))
      smoothedCuriosity == FAdd(FMul(p.curiosity, Fin(900)), FMul(targetCuriosity, Fin(100)))
      engagement == IF likelySpeaking THEN Num(95)
                    ELSE Engagement(smoothedAttention, smoothedCuriosity, smoothedActivity)
      target == TargetBox(p, idx, heatmap)
  IN  [p EXCEPT !.activity = smoothedActivity,
                !.isSpeaking = likelySpeaking,
                !.attention = smoothedAttention,
                !.stress = smoothedStress,
                !.curiosity = smoothedCuriosity,
                !.engagementScore = MathMin(Num(100), MathMax(Num(0), engagement)),
                !.bodyLanguage = DetermineBodyLanguage(likelySpeaking, smoothedActivity,
                                   smoothedStress, smoothedAttention, smoothedCuriosity),
                !.box = [p.box EXCEPT
                           !.x = FAdd(FMul(p.box.x, Fin(800)), FMul(target.x, Fin(200))),
                           !.y = FAdd(FMul(p.box.y, Fin(800)), FMul(target.y, Fin(200)))]]

(***************************************************************************)
(* State.                                                                  *)
(***************************************************************************)
VARIABLES
  \* a KalmanFilter on its own: the filter, the filter before its last call, the
  \* measurement of that call and the number of calls
  kf, kfPrev, kfIn, kfCalls,
  \* history: the measurement of the first call, and the calls that repeated
  \* the measurement of the call before
  kfSeed, kfRun,
  \* Dashboard: modelRef, the point update last returned, the number of updates
  model, lastPoint, nUpdates,
  \* history: the model before the last update call and the input of that call
  prevModel, lastInput,
  \* Dashboard: the alert refs of processNewDataPoint
  highStressCounter, highStressAlertActive,
  lowAttentionCounter, lowAttentionAlertActive,
  \* Dashboard: the types of the notifications the last processNewDataPoint
  \* call added (the list shown to the user, which the user can empty, is not
  \* part of the state)
  emitted,
  \* the argument of the last processNewDataPoint call
  newPoint,
  \* history: for each alert, whether the value was past the high threshold on
  \* each of the last ticks (newest last), and the raises since the value was
  \* last past the recovery threshold
  stressRun, attentionRun, stressRaises, attentionRaises,
  \* history: the active flags before the last processNewDataPoint call
  prevStressActive, prevAttentionActive,
  \* history: the counters before the last processNewDataPoint call
  prevStressCounter, prevAttentionCounter,
  \* Dashboard: mounted, models loaded, analyzeBiometrics calls awaiting detection
  mounted, modelsLoaded, pending,
  \* determineBodyLanguage on its own: the arguments and the result of a call
  bodyArgs, bodyTag,
  \* MeetingAgent: the participants state, the refs analyzeFrame reads
  \* (<< >> is null), whether the shared video is paused, the analyzeFrame
  \* callbacks requestAnimationFrame holds, the frames analysed so far
  participants, processingRef, isDemoRef, prevFrameRef, heatmapRef, analyserRef,
  videoPaused, scheduled, nFrames,
  \* the heatmap on its own: the grid, the grid before the last frame, the
  \* frame before (<< >> is null), whether the last frame moved a pixel, the
  \* frames without motion since, the cells that held 100 when they began,
  \* the frames ingested
  hm, hmBefore, hmFrame, hmMoved, hmQuiet, hmFull, nIngest,
  \* the raw scores of update on their own: the feature vector of a call, its
  \* clamped raw attention and its stress baseline after the blink-rate step
  rawInput, rawAttention, rawStress,
  \* a map callback of analyzeFrame on its own: the participant, its slot, the
  \* branch of the last call ("none" before any) and the number of calls
  pm, pmIdx, pmMode, pmSteps,
  \* history: the audio volume and the slot's quadrant statistics of that call
  pmAudio, pmQuad,
  \* history: the participant the call was given and the heatmap it read
  pmPrev, pmHeat,
  \* the updater functions setParticipants holds until the next render, and
  \* history: the grid each updater of the last step read and the grid the
  \* ingestion of its own frame left
  updateQueue, centroidReads,
  \* the content script: its three variables, the toggleAnalysis calls
  \* suspended at getUserMedia, the streams and intervals that are running,
  \* the number of streams granted and the interval that fired last
  isAnalyzing, stream, intervalId, pendingStarts, liveStreams, liveIntervals,
  granted, lastFired

filterVars == << kf, kfPrev, kfIn, kfCalls, kfSeed, kfRun >>
modelVars == << model, lastPoint, nUpdates, prevModel, lastInput >>
alertVars == << highStressCounter, highStressAlertActive, lowAttentionCounter,
                lowAttentionAlertActive, emitted, newPoint,
                stressRun, attentionRun, stressRaises, attentionRaises,
                prevStressActive, prevAttentionActive,
                prevStressCounter, prevAttentionCounter >>
loopVars == << mounted, modelsLoaded, pending >>
bodyVars == << bodyArgs, bodyTag >>
trackerVars == << participants, processingRef, isDemoRef, prevFrameRef, heatmapRef,
                  analyserRef, videoPaused, scheduled, nFrames >>
heatVars == << hm, hmBefore, hmFrame, hmMoved, hmQuiet, hmFull, nIngest >>
scoreVars == << rawInput, rawAttention, rawStress >>
stepVars == << pm, pmIdx, pmMode, pmSteps, pmAudio, pmQuad, pmPrev, pmHeat >>
renderVars == << updateQueue, centroidReads >>
\* the Dashboard's live window and history, and the number of points processed
VARIABLES data, allData, arrived
windowVars == << data, allData, arrived >>
contentVars == << isAnalyzing, stream, intervalId, pendingStarts, liveStreams,
                 liveIntervals, granted, lastFired >>
vars == << filterVars, modelVars, alertVars, loopVars, bodyVars, trackerVars, heatVars,
          scoreVars, stepVars, renderVars, contentVars, windowVars >>

(***************************************************************************)
(* Bounds of the model.                                                    *)
(***************************************************************************)
MaxCalls == 4          \* filter calls on the lone KalmanFilter
MaxUpdates == 4        \* CognitiveModel.update calls
MaxCounter == 7        \* cap of a consecutive-breach counter
MaxPending == 2        \* analyzeBiometrics calls awaiting one detection each
MaxDemoFrames == 6     \* frames analyzeFrame simulates
MaxRealFrames == 4     \* frames analyzeFrame analyses from the shared video
MaxScheduled == 2      \* analyzeFrame callbacks requestAnimationFrame holds
MaxIngest == 8         \* frames ingested into the lone heatmap
MaxRun == 50           \* calls that repeat the measurement of the call before
MaxSteps == 2          \* calls of the lone map callback
MaxQueued == 2         \* updater functions held until the next render
MaxTicks == 3          \* frames analysed with queued updaters
MaxPendingStarts == 2  \* toggleAnalysis calls suspended at getUserMedia
MaxGranted == 4        \* streams getUserMedia grants
MaxPoints == 5003      \* data points the Dashboard processes
LongSession == 4950    \* data points of a session already under way

(***************************************************************************)
(* Dashboard.tsx: thresholds and processNewDataPoint.                      *)
(***************************************************************************)
HIGH_STRESS_THRESHOLD == 85
STRESS_ALERT_DURATION_COUNT == 4
STRESS_RECOVERY_THRESHOLD == 70
LOW_ATTENTION_THRESHOLD == 35
LOW_ATTENTION_DURATION_COUNT == 4
LOW_ATTENTION_RECOVERY_THRESHOLD == 40

\* the value is on the bad side of the high threshold
StressBreached(pt) == FGt(pt.stress, Num(HIGH_STRESS_THRESHOLD))
AttentionBreached(pt) == FLt(pt.attention, Num(LOW_ATTENTION_THRESHOLD))

\* a counter that is kept, not cleared, on a tick without a breach
NextCounterHeld(counter, breached) == IF breached THEN counter + 1 ELSE counter

\* counter++ on a breach, else counter = 0
NextCounter(counter, breached) == IF breached THEN counter + 1 ELSE 0

ShouldRaiseAtDuration(counter, duration, active) == counter >= duration /\ ~active
ShouldRaiseWhileActive(counter, duration, active) == counter > duration
ShouldRaiseOneTickLate(counter, duration, active) == counter > duration + 1 /\ ~active

\* the condition under which the alert is raised
ShouldRaise(counter, duration, active) == counter > duration /\ ~active

StressRecoveredAtHigh(pt) == FLt(pt.stress, Num(HIGH_STRESS_THRESHOLD))

\* the value is past the recovery threshold
StressRecovered(pt) == FLt(pt.stress, Num(STRESS_RECOVERY_THRESHOLD))
AttentionRecovered(pt) == FGt(pt.attention, Num(LOW_ATTENTION_RECOVERY_THRESHOLD))

NextActiveDropInBand(active, raise, recovered) == raise

\* the active flag after the raise test and the recovery test, in that order
NextActive(active, raise, recovered) ==
  IF recovered THEN FALSE ELSE IF raise THEN TRUE ELSE active

\* the last n elements of s with e appended
Recent(s, e, n) ==
  LET t == Append(s, e)
  IN  IF Len(t) > n THEN SubSeq(t, Len(t) - n + 1, Len(t)) ELSE t

\* processNewDataPoint(pt)
ProcessNewDataPoint(pt) ==
  LET sc == NextCounter(highStressCounter, StressBreached(pt))
      sRaise == ShouldRaise(sc, STRESS_ALERT_DURATION_COUNT, highStressAlertActive)
      ac == NextCounter(lowAttentionCounter, AttentionBreached(pt))
      aRaise == ShouldRaise(ac, LOW_ATTENTION_DURATION_COUNT, lowAttentionAlertActive)
      added == (IF sRaise THEN << "stress" >> ELSE << >>)
                 \o (IF aRaise THEN << "low-attention" >> ELSE << >>)
  IN  /\ sc <= MaxCounter
      /\ ac <= MaxCounter
      /\ highStressCounter' = sc
      /\ highStressAlertActive' =
           NextActive(highStressAlertActive, sRaise, StressRecovered(pt))
      /\ lowAttentionCounter' = ac
      /\ lowAttentionAlertActive' =
           NextActive(lowAttentionAlertActive, aRaise, AttentionRecovered(pt))
      /\ emitted' = added
      /\ newPoint' = pt
      /\ prevStressActive' = highStressAlertActive
      /\ prevAttentionActive' = lowAttentionAlertActive
      /\ prevStressCounter' = highStressCounter
      /\ prevAttentionCounter' = lowAttentionCounter
      /\ stressRun' = Recent(stressRun, pt.stress.k = "fin" /\ pt.stress.v > 85 * SCALE,
                             STRESS_ALERT_DURATION_COUNT + 1)
      /\ attentionRun' = Recent(attentionRun,
                                pt.attention.k = "fin" /\ pt.attention.v < 35 * SCALE,
                                LOW_ATTENTION_DURATION_COUNT + 1)
      /\ stressRaises' = IF pt.stress.k = "fin" /\ pt.stress.v < 70 * SCALE THEN 0
                         ELSE stressRaises + (IF sRaise THEN 1 ELSE 0)
      /\ attentionRaises' = IF pt.attention.k = "fin" /\ pt.attention.v > 40 * SCALE THEN 0
                            ELSE attentionRaises + (IF aRaise THEN 1 ELSE 0)

\* the data points processNewDataPoint is driven with: stress and attention
\* below, at and above each threshold, and a point of NaNs
StressSamples == { Num(60), Num(70), Num(85), Num(86), NaN }
AttentionSamples == { Num(30), Num(35), Num(40), Num(41), NaN }
SamplePoints ==
  { [attention |-> a, stress |-> s, curiosity |-> Num(50)] :
      a \in AttentionSamples, s \in StressSamples }

\* a data point arrives
ProcessPoint ==
  /\ \E pt \in SamplePoints : ProcessNewDataPoint(pt)
  /\ UNCHANGED << filterVars, modelVars, loopVars, bodyVars, trackerVars, heatVars, scoreVars, stepVars, renderVars, contentVars, windowVars >>

(***************************************************************************)
(* Initial state: a new KalmanFilter, a mounted Dashboard.                 *)
(***************************************************************************)
NoisePairs == { << Fin(100), Num(5) >>, << Fin(100), Num(10) >>,
                << Fin(100), Num(8) >>, << Num(1), Num(1) >> }

InitDashboard ==
  /\ model = NewCognitiveModel
  /\ lastPoint = DataPoint(NewCognitiveModel.state)
  /\ nUpdates = 0
  /\ prevModel = NewCognitiveModel
  /\ lastInput = FaceLostInput
  /\ highStressCounter = 0
  /\ highStressAlertActive = FALSE
  /\ lowAttentionCounter = 0
  /\ lowAttentionAlertActive = FALSE
  /\ emitted = << >>
  /\ newPoint = DataPoint(NewCognitiveModel.state)
  /\ stressRun = << >>
  /\ attentionRun = << >>
  /\ stressRaises = 0
  /\ attentionRaises = 0
  /\ prevStressActive = FALSE
  /\ prevAttentionActive = FALSE
  /\ prevStressCounter = 0
  /\ prevAttentionCounter = 0
  /\ mounted = TRUE
  /\ modelsLoaded = FALSE
  /\ pending = 0

InitFilter(p) ==
  /\ kf = NewKalmanFilter(p[1], p[2])
  /\ kfPrev = NewKalmanFilter(p[1], p[2])
  /\ kfIn = NaN
  /\ kfCalls = 0
  /\ kfSeed = NaN
  /\ kfRun = 0

\* the metrics of the top-left participant before any frame, and its tag
InitBody ==
  /\ bodyArgs = [isSpeaking |-> FALSE, activity |-> Num(0), stress |-> Num(20),
                 attention |-> Num(80), curiosity |-> Num(60)]
  /\ bodyTag = "Listening"

InitTracker ==
  /\ participants = InitialParticipants
  /\ processingRef = FALSE
  /\ isDemoRef = FALSE
  /\ prevFrameRef = << >>
  /\ heatmapRef = << >>
  /\ analyserRef = FALSE
  /\ videoPaused = TRUE
  /\ scheduled = 0
  /\ nFrames = 0

InitHeat ==
  /\ hm = NewHeatmap
  /\ hmBefore = NewHeatmap
  /\ hmFrame = << >>
  /\ hmMoved = FALSE
  /\ hmQuiet = 0
  /\ hmFull = {}
  /\ nIngest = 0

\* the face-lost vector and its raw scores
InitScore ==
  /\ rawInput = FaceLostInput
  /\ rawAttention = RawAttention(FaceLostInput)
  /\ rawStress = StressBaseline(FaceLostInput.blinkRate)

InitStep(idx, p) ==
  /\ pm = p
  /\ pmIdx = idx
  /\ pmMode = "none"
  /\ pmSteps = 0
  /\ pmAudio = Num(0)
  /\ pmQuad = [motion |-> 0, pixels |-> 0]
  /\ pmPrev = p
  /\ pmHeat = NewHeatmap

\* useState<CognitiveDataPoint[]>([]) twice; no point has arrived
InitWindow ==
  /\ data = << >>
  /\ allData = << >>
  /\ arrived = 0

\* the content script as loaded: null is 0
InitContent ==
  /\ isAnalyzing = FALSE
  /\ stream = 0
  /\ intervalId = 0
  /\ pendingStarts = 0
  /\ liveStreams = {}
  /\ liveIntervals = {}
  /\ granted = 0
  /\ lastFired = 0

InitRender ==
  /\ updateQueue = << >>
  /\ centroidReads = << >>

Init ==
  /\ InitFilter(<< Num(1), Num(1) >>)
  /\ InitDashboard /\ InitBody /\ InitTracker /\ InitHeat /\ InitScore /\ InitRender /\ InitContent /\ InitWindow
  /\ InitStep(0, InitialParticipants[0])

\* processNewDataPoint under every sequence of data points
SpecAlert == Init /\ [][ProcessPoint]_vars

(***************************************************************************)
(* A KalmanFilter on its own, and a CognitiveModel on its own.             *)
(***************************************************************************)
Measurements == { Num(0), Num(42), Num(50), Num(100), NaN, PInf, NInf }

\* filter(m)
FilterCall ==
  /\ kfCalls < MaxCalls
  /\ kfRun = 0
  /\ \E m \in Measurements :
       /\ kf' = KalmanFilter(kf, m)
       /\ kfIn' = m
       /\ kfSeed' = IF kfCalls = 0 THEN m ELSE kfSeed
  /\ kfPrev' = kf
  /\ kfCalls' = kfCalls + 1
  /\ UNCHANGED kfRun
  /\ UNCHANGED << modelVars, alertVars, loopVars, bodyVars, trackerVars, heatVars, scoreVars, stepVars, renderVars, contentVars, windowVars >>

\* update(input)
ModelUpdate ==
  /\ nUpdates < MaxUpdates
  /\ \E input \in BiometricInputs :
       /\ model' = CognitiveUpdate(model, input)
       /\ lastInput' = input
  /\ prevModel' = model
  /\ lastPoint' = DataPoint(model'.state)
  /\ nUpdates' = nUpdates + 1
  /\ UNCHANGED << filterVars, alertVars, loopVars, bodyVars, trackerVars, heatVars, scoreVars, stepVars, renderVars, contentVars, windowVars >>

\* a new filter of any of the noise pairs, under every sequence of measurements
InitAnyFilter ==
  /\ \E p \in NoisePairs : InitFilter(p)
  /\ InitDashboard /\ InitBody /\ InitTracker /\ InitHeat /\ InitScore /\ InitRender /\ InitContent /\ InitWindow
  /\ InitStep(0, InitialParticipants[0])

SpecFilter == InitAnyFilter /\ [][FilterCall]_vars

\* filter(m) with the finite measurement of the call before
FilterCallAgain ==
  /\ kfCalls >= 1
  /\ IsFinite(kfIn)
  /\ kfRun < MaxRun
  /\ kf' = KalmanFilter(kf, kfIn)
  /\ kfPrev' = kf
  /\ kfRun' = kfRun + 1
  /\ UNCHANGED << kfIn, kfCalls, kfSeed >>
  /\ UNCHANGED << modelVars, alertVars, loopVars, bodyVars, trackerVars, heatVars, scoreVars, stepVars, renderVars, contentVars, windowVars >>

\* a new filter under a few measurements and then one measurement held
SpecHold == InitAnyFilter /\ [][FilterCall \/ FilterCallAgain]_vars

\* a new CognitiveModel under every sequence of feature vectors
SpecModel == Init /\ [][ModelUpdate]_vars


(***************************************************************************)
(* Dashboard.tsx: the main loop.  setInterval calls analyzeBiometrics      *)
(* every 250 ms; each call that passes the guard awaits one face           *)
(* detection and, when it resolves, updates the model and processes the    *)
(* new point.  The landmark geometry of a detection is an input: the       *)
(* feature vector it yields is one of BiometricInputs.                     *)
(***************************************************************************)
\* loadModels has resolved: setModelsLoaded(true)
LoadModels ==
  /\ mounted
  /\ ~modelsLoaded
  /\ modelsLoaded' = TRUE
  /\ UNCHANGED << mounted, pending >>
  /\ UNCHANGED << filterVars, modelVars, alertVars, bodyVars, trackerVars, heatVars, scoreVars, stepVars, renderVars, contentVars, windowVars >>

\* the interval fires: analyzeBiometrics() up to its await
IntervalFires ==
  /\ mounted
  /\ \/ /\ ~modelsLoaded
        /\ UNCHANGED pending
     \/ /\ modelsLoaded
        /\ pending < MaxPending
        /\ pending' = pending + 1
  /\ UNCHANGED << mounted, modelsLoaded >>
  /\ UNCHANGED << filterVars, modelVars, alertVars, bodyVars, trackerVars, heatVars, scoreVars, stepVars, renderVars, contentVars, windowVars >>

\* a detection resolves: analyzeBiometrics from its await to its end
DetectionResolves ==
  /\ pending > 0
  /\ nUpdates < MaxUpdates
  /\ pending' = pending - 1
  /\ \E input \in BiometricInputs :
       /\ model' = CognitiveUpdate(model, input)
       /\ lastInput' = input
       /\ lastPoint' = DataPoint(model'.state)
       /\ ProcessNewDataPoint(DataPoint(CognitiveUpdate(model, input).state))
  /\ prevModel' = model
  /\ nUpdates' = nUpdates + 1
  /\ UNCHANGED << mounted, modelsLoaded >>
  /\ UNCHANGED << filterVars, bodyVars, trackerVars, heatVars, scoreVars, stepVars, renderVars, contentVars, windowVars >>

\* the component unmounts: the effect's cleanup clears the interval
Unmount ==
  /\ mounted
  /\ mounted' = FALSE
  /\ UNCHANGED << modelsLoaded, pending >>
  /\ UNCHANGED << filterVars, modelVars, alertVars, bodyVars, trackerVars, heatVars, scoreVars, stepVars, renderVars, contentVars, windowVars >>

\* the Dashboard's sampling loop
SpecDash == Init /\ [][LoadModels \/ IntervalFires \/ DetectionResolves \/ Unmount]_vars

(***************************************************************************)
(* determineBodyLanguage on its own.                                       *)
(***************************************************************************)
ActivityArgs == { Num(5), Num(10), Num(12), Num(15), Num(20), Num(30), Num(35), Num(40) }
StressArgs == { Num(40), Num(50), Num(75), Num(80) }
AttentionArgs == { Num(30), Num(40), Num(60), Num(70), Num(80), Num(90) }
CuriosityArgs == { Num(60), Num(70), Num(80) }

\* determineBodyLanguage(...) is called
ClassifyBody ==
  /\ \E sp \in BOOLEAN, ac \in ActivityArgs, st \in StressArgs,
        at \in AttentionArgs, cu \in CuriosityArgs :
       /\ bodyArgs' = [isSpeaking |-> sp, activity |-> ac, stress |-> st,
                       attention |-> at, curiosity |-> cu]
       /\ bodyTag' = DetermineBodyLanguage(sp, ac, st, at, cu)
  /\ UNCHANGED << filterVars, modelVars, alertVars, loopVars, trackerVars, heatVars, scoreVars, stepVars, renderVars, contentVars, windowVars >>

SpecBody == Init /\ [][ClassifyBody]_vars

(***************************************************************************)
(* MeetingAgent.tsx: the frame loop.  analyzeFrame runs from startDemoMode, *)
(* from onloadedmetadata and as a requestAnimationFrame callback; canvasRef *)
(* and its 2d context exist for as long as the component is mounted.        *)
(***************************************************************************)
\* the demo branch: one setParticipants update
DemoFrame(d) ==
  /\ participants' = [idx \in Slots |-> DemoParticipant(participants[idx], d)]
  /\ UNCHANGED heatmapRef

\* the real branch: heatmap decay and pixel loop, save the frame, update
RealFrame(currentData, prevData, audioVolume) ==
  LET acc == Ingest(heatmapRef, currentData, prevData)
  IN  /\ heatmapRef' = acc.heatmap
      /\ prevFrameRef' = currentData
      /\ participants' =
           [idx \in Slots |->
              RealParticipant(participants[idx], idx, acc.quadStats[idx],
                              acc.heatmap, audioVolume)]

\* analyzeFrame() with the refs as the caller left them; held is the number of
\* callbacks requestAnimationFrame holds when the call starts
AnalyzeFrame(processing, demo, paused, analyser, prevData, held) ==
  IF ~processing
    THEN /\ scheduled' = held
         /\ prevFrameRef' = prevData
         /\ UNCHANGED << participants, heatmapRef, nFrames >>
  ELSE /\ held < MaxScheduled
       /\ scheduled' = held + 1
       /\ nFrames' = nFrames + 1
       /\ IF demo
            THEN /\ nFrames < MaxDemoFrames
                 /\ prevFrameRef' = prevData
                 /\ \E d \in DemoDraws : DemoFrame(d)
          ELSE /\ nFrames < MaxRealFrames
               /\ IF paused
                    THEN /\ prevFrameRef' = prevData
                         /\ UNCHANGED << participants, heatmapRef >>
                  ELSE \E currentData \in Frames :
                         \E audioVolume \in (IF analyser THEN AudioVolumes ELSE { Num(0) }) :
                           RealFrame(currentData, prevData, audioVolume)

\* startDemoMode, the timer callback of a failed startCapture: it tests
\* neither processingRef nor a callback already held
StartDemoMode ==
  /\ isDemoRef' = TRUE
  /\ processingRef' = TRUE
  /\ AnalyzeFrame(TRUE, TRUE, videoPaused, analyserRef, prevFrameRef, scheduled)
  /\ UNCHANGED << analyserRef, videoPaused >>
  /\ UNCHANGED << filterVars, modelVars, alertVars, loopVars, bodyVars, heatVars, scoreVars, stepVars, renderVars, contentVars, windowVars >>

\* startCapture when the display stream is granted, through onloadedmetadata:
\* the stream has an audio track or not, play() resolves or rejects
StartCapture ==
  /\ ~processingRef
  /\ \E audioTrack \in BOOLEAN, played \in BOOLEAN :
       /\ isDemoRef' = FALSE
       /\ analyserRef' = (analyserRef \/ audioTrack)
       /\ videoPaused' = ~played
       /\ processingRef' = TRUE
       /\ AnalyzeFrame(TRUE, FALSE, ~played, analyserRef \/ audioTrack, << >>, scheduled)
  /\ UNCHANGED << filterVars, modelVars, alertVars, loopVars, bodyVars, heatVars, scoreVars, stepVars, renderVars, contentVars, windowVars >>

\* a requestAnimationFrame callback runs
AnimationFrame ==
  /\ scheduled > 0
  /\ AnalyzeFrame(processingRef, isDemoRef, videoPaused, analyserRef, prevFrameRef,
                  scheduled - 1)
  /\ UNCHANGED << processingRef, isDemoRef, analyserRef, videoPaused >>
  /\ UNCHANGED << filterVars, modelVars, alertVars, loopVars, bodyVars, heatVars, scoreVars, stepVars, renderVars, contentVars, windowVars >>

\* stopCapture: the Stop button, or the shared track ending
StopCapture ==
  /\ processingRef
  /\ processingRef' = FALSE
  /\ isDemoRef' = FALSE
  /\ videoPaused' = TRUE
  /\ UNCHANGED << participants, prevFrameRef, heatmapRef, analyserRef, scheduled, nFrames >>
  /\ UNCHANGED << filterVars, modelVars, alertVars, loopVars, bodyVars, heatVars, scoreVars, stepVars, renderVars, contentVars, windowVars >>

\* a session of the simulation, and a session on a shared screen
SpecDemo == Init /\ [][StartDemoMode \/ AnimationFrame \/ StopCapture]_vars
SpecReal == Init /\ [][StartCapture \/ AnimationFrame \/ StopCapture]_vars

(***************************************************************************)
(* The heatmap of analyzeFrame on its own: one frame is ingested, as lines *)
(* 379-427 do it, into a grid that starts as the new Float32Array.         *)
(***************************************************************************)
\* some sampled pixel differs from the previous frame by more than 40
FrameMoved(currentData, prevData) ==
  /\ prevData # << >>
  /\ \E n \in Samples : PixelDiff(currentData, prevData, n) > 40

IngestFrame ==
  /\ nIngest < MaxIngest
  /\ \E currentData \in HeatFrames :
       LET moved == FrameMoved(currentData, hmFrame)
       IN  /\ hm' = Ingest(hm, currentData, hmFrame).heatmap
           /\ hmBefore' = hm
           /\ hmFrame' = currentData
           /\ hmMoved' = moved
           /\ hmQuiet' = IF moved THEN 0 ELSE hmQuiet + 1
           /\ hmFull' = IF moved THEN {}
                        ELSE IF hmQuiet = 0 THEN { i \in 1..Len(hm) : hm[i] = 100 * SCALE }
                        ELSE hmFull
  /\ nIngest' = nIngest + 1
  /\ UNCHANGED << filterVars, modelVars, alertVars, loopVars, bodyVars, trackerVars,
                  scoreVars, stepVars, renderVars, contentVars, windowVars >>

SpecHeat == Init /\ [][IngestFrame]_vars

(***************************************************************************)
(* The raw scores of CognitiveModel.update on their own.  yaw, pitch and   *)
(* ear are what analyzeBiometrics computes from the landmarks (a           *)
(* degenerate landmark set gives 0/0 or x/0), blinkRate is a count.        *)
(***************************************************************************)
YawArgs == { Num(0), Num(10), Num(30), NaN, PInf }
PitchArgs == { Num(5), Num(0), Num(-10), Num(45) }
EarArgs == { Fin(150), Fin(190), Fin(200), Fin(250) }
BlinkArgs == { Num(0), Num(4), Num(5), Num(20), Num(21), Num(30), Num(31), Num(40) }

\* update(input) computes rawAttention and stressBase
ScoreFeatures ==
  /\ \E yaw \in YawArgs, pitch \in PitchArgs, ear \in EarArgs, blinkRate \in BlinkArgs :
       LET input == BiometricInput(yaw, pitch, ear, blinkRate, NoExpression)
       IN  /\ rawInput' = input
           /\ rawAttention' = RawAttention(input)
           /\ rawStress' = StressBaseline(blinkRate)
  /\ UNCHANGED << filterVars, modelVars, alertVars, loopVars, bodyVars, trackerVars,
                  heatVars, stepVars, renderVars, contentVars, windowVars >>

SpecScore == Init /\ [][ScoreFeatures]_vars

(***************************************************************************)
(* The map callbacks of analyzeFrame on their own: one participant, near   *)
(* the ends of the score range or as the session starts, is put through    *)
(* the demo callback or the real callback.                                 *)
(***************************************************************************)
\* the participants the callback is given: the initial one of the slot, and
\* ones whose scores a long session has walked to either end of the range
StepParticipants(idx) ==
  { InitialParticipants[idx] } \cup
  { [InitialParticipants[idx] EXCEPT !.attention = at, !.stress = st, !.curiosity = cu,
                                     !.activity = ac, !.isSpeaking = sp] :
      at \in { Num(1), Num(99) }, st \in { Num(1), Num(99) }, cu \in { Num(1), Num(99) },
      ac \in { Num(0), Num(89) }, sp \in BOOLEAN }

\* the draws of a frame, and all draws high with nobody starting to speak
StepDraws ==
  DemoDraws \cup { Draw(500, 999, 999, 999, 999, 500, 500, 500, 999, 999, 999) }

InitAnyStep ==
  /\ InitFilter(<< Num(1), Num(1) >>)
  /\ InitDashboard /\ InitBody /\ InitTracker /\ InitHeat /\ InitScore /\ InitRender /\ InitContent /\ InitWindow
  /\ \E idx \in { 0, 3 } : \E p \in StepParticipants(idx) : InitStep(idx, p)

\* the callback of the demo branch
DemoStep ==
  /\ pmSteps < MaxSteps
  /\ \E d \in StepDraws : pm' = DemoParticipant(pm, d)
  /\ pmMode' = "demo"
  /\ pmAudio' = Num(0)
  /\ pmQuad' = [motion |-> 0, pixels |-> 0]
  /\ pmPrev' = pm
  /\ pmHeat' = NewHeatmap
  /\ pmSteps' = pmSteps + 1
  /\ UNCHANGED pmIdx
  /\ UNCHANGED << filterVars, modelVars, alertVars, loopVars, bodyVars, trackerVars,
                  heatVars, scoreVars, renderVars, contentVars, windowVars >>

\* the callback of the real branch, for a frame that follows an all dark one
RealStep ==
  /\ pmSteps < MaxSteps
  /\ \E currentData \in Frames, audioVolume \in AudioVolumes :
       LET acc == Ingest(NewHeatmap, currentData, [i \in 1..NumCells |-> "dark"])
       IN  /\ pm' = RealParticipant(pm, pmIdx, acc.quadStats[pmIdx], acc.heatmap, audioVolume)
           /\ pmAudio' = audioVolume
           /\ pmQuad' = acc.quadStats[pmIdx]
           /\ pmHeat' = acc.heatmap
  /\ pmPrev' = pm
  /\ pmMode' = "real"
  /\ pmSteps' = pmSteps + 1
  /\ UNCHANGED pmIdx
  /\ UNCHANGED << filterVars, modelVars, alertVars, loopVars, bodyVars, trackerVars,
                  heatVars, scoreVars, renderVars, contentVars, windowVars >>

SpecStep == InitAnyStep /\ [][DemoStep \/ RealStep]_vars

(***************************************************************************)
(* The map callback of the real branch on ticks whose heat in the slot's   *)
(* quadrant is not above 50: the box drifts.  The callback is given a box  *)
(* a capture can leave anywhere in [0, 60], or a box a simulation left     *)
(* outside that range (x = -1 after six frames of low draws; participants  *)
(* are kept from one session to the next).                                 *)
(***************************************************************************)
DriftCoordinates == { Num(-1), Num(0), Num(5), Num(30), Num(55), Num(60), Num(61) }

DriftParticipants(idx) ==
  { [InitialParticipants[idx] EXCEPT !.box.x = x, !.box.y = y] :
      x \in DriftCoordinates, y \in { quadrantDefaults[idx].y, Num(30) } }

\* heatmaps with no heat, and with heat 40 in one cell of each quadrant
QuietHeatmaps == { NewHeatmap, [i \in 1..NumCells |-> IF i % 2 = 1 THEN 40 * SCALE ELSE 0] }

InitAnyDrift ==
  /\ InitFilter(<< Num(1), Num(1) >>)
  /\ InitDashboard /\ InitBody /\ InitTracker /\ InitHeat /\ InitScore /\ InitRender /\ InitContent /\ InitWindow
  /\ \E idx \in { 0, 3 } : \E p \in DriftParticipants(idx) : InitStep(idx, p)

\* the callback on a frame equal to the one before it, with no audio
DriftStep ==
  /\ \E heatmap \in QuietHeatmaps :
       /\ pm' = RealParticipant(pm, pmIdx, [motion |-> 0, pixels |-> NumSamples \div 4],
                                heatmap, Num(0))
       /\ pmHeat' = heatmap
  /\ pmPrev' = pm
  /\ pmMode' = "drift"
  /\ pmAudio' = Num(0)
  /\ pmQuad' = [motion |-> 0, pixels |-> NumSamples \div 4]
  /\ UNCHANGED << pmIdx, pmSteps >>
  /\ UNCHANGED << filterVars, modelVars, alertVars, loopVars, bodyVars, trackerVars,
                  heatVars, scoreVars, renderVars, contentVars, windowVars >>

SpecDrift == InitAnyDrift /\ [][DriftStep]_vars

(***************************************************************************)
(* The real branch with its updater function.  setParticipants(fn) hands   *)
(* fn to React: React calls it at once when the component has no update    *)
(* pending, and otherwise holds it and calls it when it next renders the   *)
(* component.  fn reads quadStats of its own call of analyzeFrame and the   *)
(* one heatmap array of heatmapRef, as that array is when fn is called.     *)
(***************************************************************************)
\* the updater of the real branch, called on prevParts
ParticipantsUpdater(prevParts, u, heatmap) ==
  [idx \in Slots |->
     RealParticipant(prevParts[idx], idx, u.quadStats[idx], heatmap, u.audioVolume)]

\* a render calls the held updaters in the order they were handed over
RECURSIVE RenderQueue(_, _, _)
RenderQueue(prevParts, queue, heatmap) ==
  IF queue = << >> THEN prevParts
  ELSE RenderQueue(ParticipantsUpdater(prevParts, Head(queue), heatmap),
                   Tail(queue), heatmap)

\* what the updaters of queue read when they are called with the array at heatmap
CentroidReads(queue, heatmap) ==
  [i \in 1..Len(queue) |-> [read |-> heatmap, left |-> queue[i].left]]

\* onloadedmetadata has played the video and set the refs
InitCapturing ==
  /\ InitFilter(<< Num(1), Num(1) >>)
  /\ InitDashboard /\ InitBody /\ InitHeat /\ InitScore /\ InitRender /\ InitContent /\ InitWindow
  /\ InitStep(0, InitialParticipants[0])
  /\ participants = InitialParticipants
  /\ processingRef = TRUE
  /\ isDemoRef = FALSE
  /\ prevFrameRef = << >>
  /\ heatmapRef = << >>
  /\ analyserRef = TRUE
  /\ videoPaused = FALSE
  /\ scheduled = 1
  /\ nFrames = 0

\* analyzeFrame in the real branch on a playing video: decay and pixel loop,
\* save the frame, setParticipants(fn); eager: React has no update pending
\* for the component and calls fn at once
AnalyzeTick ==
  /\ processingRef /\ ~isDemoRef /\ ~videoPaused
  /\ nFrames < MaxTicks
  /\ \E currentData \in Frames, audioVolume \in AudioVolumes, eager \in BOOLEAN :
       LET acc == Ingest(heatmapRef, currentData, prevFrameRef)
           u == [quadStats |-> acc.quadStats, audioVolume |-> audioVolume,
                 left |-> acc.heatmap]
       IN  /\ heatmapRef' = acc.heatmap
           /\ prevFrameRef' = currentData
           /\ nFrames' = nFrames + 1
           /\ IF eager /\ updateQueue = << >>
                THEN /\ participants' = ParticipantsUpdater(participants, u, acc.heatmap)
                     /\ centroidReads' = CentroidReads(<< u >>, acc.heatmap)
                     /\ UNCHANGED updateQueue
              ELSE /\ Len(updateQueue) < MaxQueued
                   /\ updateQueue' = Append(updateQueue, u)
                   /\ centroidReads' = << >>
                   /\ UNCHANGED participants
  /\ UNCHANGED << processingRef, isDemoRef, analyserRef, videoPaused, scheduled >>
  /\ UNCHANGED << filterVars, modelVars, alertVars, loopVars, bodyVars, heatVars, scoreVars, stepVars, contentVars, windowVars >>

\* React renders the component and calls the updaters it holds
Render ==
  /\ updateQueue # << >>
  /\ participants' = RenderQueue(participants, updateQueue, heatmapRef)
  /\ centroidReads' = CentroidReads(updateQueue, heatmapRef)
  /\ updateQueue' = << >>
  /\ UNCHANGED << processingRef, isDemoRef, prevFrameRef, heatmapRef, analyserRef,
                  videoPaused, scheduled, nFrames >>
  /\ UNCHANGED << filterVars, modelVars, alertVars, loopVars, bodyVars, heatVars, scoreVars, stepVars, contentVars, windowVars >>

SpecRender == InitCapturing /\ [][AnalyzeTick \/ Render]_vars

(***************************************************************************)
(* The content script.  toggleAnalysis is the click handler of the toggle  *)
(* button; it is suspended at await getUserMedia(...) and the button stays *)
(* enabled meanwhile.  Streams and intervals are numbered from 1 as they   *)
(* are created; 0 is null.                                                 *)
(***************************************************************************)
\* stopAnalysis()
StopAnalysis ==
  /\ isAnalyzing' = FALSE
  /\ liveIntervals' = liveIntervals \ { intervalId }
  /\ liveStreams' = IF stream # 0 THEN liveStreams \ { stream } ELSE liveStreams
  /\ stream' = 0
  /\ UNCHANGED intervalId

\* a click on the toggle button: toggleAnalysis up to its await, or all of
\* its stop branch
ToggleClick ==
  /\ IF isAnalyzing
       THEN StopAnalysis /\ UNCHANGED pendingStarts
     ELSE /\ pendingStarts < MaxPendingStarts
          /\ pendingStarts' = pendingStarts + 1
          /\ UNCHANGED << isAnalyzing, stream, intervalId, liveStreams, liveIntervals >>
  /\ UNCHANGED << granted, lastFired >>
  /\ UNCHANGED << filterVars, modelVars, alertVars, loopVars, bodyVars, trackerVars,
                  heatVars, scoreVars, stepVars, renderVars, windowVars >>

\* getUserMedia resolves: toggleAnalysis from its await to setInterval
StreamGranted ==
  /\ pendingStarts > 0
  /\ granted < MaxGranted
  /\ pendingStarts' = pendingStarts - 1
  /\ granted' = granted + 1
  /\ stream' = granted + 1
  /\ liveStreams' = liveStreams \cup { granted + 1 }
  /\ isAnalyzing' = TRUE
  /\ intervalId' = granted + 1
  /\ liveIntervals' = liveIntervals \cup { granted + 1 }
  /\ UNCHANGED lastFired
  /\ UNCHANGED << filterVars, modelVars, alertVars, loopVars, bodyVars, trackerVars,
                  heatVars, scoreVars, stepVars, renderVars, windowVars >>

\* getUserMedia rejects: the catch branch of toggleAnalysis
StreamRefused ==
  /\ pendingStarts > 0
  /\ pendingStarts' = pendingStarts - 1
  /\ UNCHANGED << isAnalyzing, stream, intervalId, liveStreams, liveIntervals, granted,
                  lastFired >>
  /\ UNCHANGED << filterVars, modelVars, alertVars, loopVars, bodyVars, trackerVars,
                  heatVars, scoreVars, stepVars, renderVars, windowVars >>

\* an interval that has not been cleared fires
AnalysisIntervalFires ==
  /\ \E i \in liveIntervals : lastFired' = i
  /\ UNCHANGED << isAnalyzing, stream, intervalId, pendingStarts, liveStreams,
                  liveIntervals, granted >>
  /\ UNCHANGED << filterVars, modelVars, alertVars, loopVars, bodyVars, trackerVars,
                  heatVars, scoreVars, stepVars, renderVars, windowVars >>

SpecContent ==
  Init /\ [][ToggleClick \/ StreamGranted \/ StreamRefused \/ AnalysisIntervalFires]_vars

(***************************************************************************)
(* The Dashboard's two windows of data points (the head of                 *)
(* processNewDataPoint).  The updaters read and write data and allData     *)
(* only and take nothing from a point but the point itself, so a point is  *)
(* its arrival number.                                                     *)
(***************************************************************************)
MAX_DATA_POINTS == 30
MAX_HISTORY_POINTS == 5000

\* arr.slice(-n) for n > 0: the last n elements, all of them if there are fewer
SliceLast(arr, n) ==
  IF Len(arr) <= n THEN arr ELSE SubSeq(arr, Len(arr) - n + 1, Len(arr))

\* the live-window updater with slice(-MAX_DATA_POINTS)
LiveWindowKeepsThirty(curr, point) ==
  Append(SliceLast(curr, MAX_DATA_POINTS), point)

\* curr => [...curr.slice(-MAX_DATA_POINTS + 1), point]
LiveWindow(curr, point) ==
  Append(SliceLast(curr, MAX_DATA_POINTS - 1), point)

\* curr => { const updated = [...curr, point]; return updated.length > ... }
HistoryWindow(curr, point) ==
  LET updated == Append(curr, point)
  IN  IF Len(updated) > MAX_HISTORY_POINTS
        THEN SliceLast(updated, MAX_HISTORY_POINTS)
      ELSE updated

\* setData and setAllData of one processNewDataPoint call
AppendPoint ==
  /\ arrived < MaxPoints
  /\ arrived' = arrived + 1
  /\ data' = LiveWindow(data, arrived + 1)
  /\ allData' = HistoryWindow(allData, arrived + 1)
  /\ UNCHANGED << filterVars, modelVars, alertVars, loopVars, bodyVars, trackerVars,
                  heatVars, scoreVars, stepVars, renderVars, contentVars >>

\* the two windows after the points lo..hi have been processed on top of w,
\* the points lo..mid before the points mid+1..hi
RECURSIVE ProcessedPoints(_, _, _)
ProcessedPoints(w, lo, hi) ==
  IF lo > hi THEN w
  ELSE IF lo = hi
    THEN [data |-> LiveWindow(w.data, lo), allData |-> HistoryWindow(w.allData, lo)]
  ELSE LET mid == (lo + hi) \div 2
       IN  CHOOSE r \in { ProcessedPoints(v, mid + 1, hi) :
                            v \in { ProcessedPoints(w, lo, mid) } } : TRUE

\* a Dashboard just mounted, or one that has processed LongSession points
InitAnyWindow ==
  /\ InitFilter(<< Num(1), Num(1) >>)
  /\ InitDashboard /\ InitBody /\ InitTracker /\ InitHeat /\ InitScore /\ InitRender /\ InitContent
  /\ InitStep(0, InitialParticipants[0])
  /\ arrived \in { 0, LongSession }
  /\ LET w == ProcessedPoints([data |-> << >>, allData |-> << >>], 1, arrived)
     IN  data = w.data /\ allData = w.allData

SpecWindow == InitAnyWindow /\ [][AppendPoint]_vars

(***************************************************************************)
(* Alert hysteresis (processNewDataPoint).                                 *)
(***************************************************************************)
Has(s, e) == \E i \in 1..Len(s) : s[i] = e
AllTrue(s) == \A i \in 1..Len(s) : s[i]
FiniteBelow(a, n) == a.k = "fin" /\ a.v < n * SCALE
FiniteAbove(a, n) == a.k = "fin" /\ a.v > n * SCALE

\* C1: for one signal no second notification is raised while the alert stays
\* active: between two raises of a signal there is a tick whose value was past
\* the recovery threshold (stress < 70, attention > 40), so the number of
\* raises since the value was last past it never exceeds one.
C1_NoSecondRaiseWhileActive == stressRaises <= 1 /\ attentionRaises <= 1

\* the stress alert was raised, the value left the high side and came back for
\* more than the duration without going under 70: the counter has just
\* exceeded the duration again and nothing is raised
C1_Witness ==
  /\ highStressAlertActive
  /\ stressRaises = 1
  /\ highStressCounter = STRESS_ALERT_DURATION_COUNT + 1
  /\ ~Has(emitted, "stress")

\* C2: a notification is raised on a tick only if the alert was not active
\* before the tick and the counter exceeds the duration: the value was past the
\* high threshold on this tick and on each of the 4 ticks before it.
C2_RaisedOnlyAfterSustainedBreach ==
  /\ Has(emitted, "stress") =>
       /\ ~prevStressActive
       /\ highStressCounter > STRESS_ALERT_DURATION_COUNT
       /\ Len(stressRun) = STRESS_ALERT_DURATION_COUNT + 1
       /\ AllTrue(stressRun)
  /\ Has(emitted, "low-attention") =>
       /\ ~prevAttentionActive
       /\ lowAttentionCounter > LOW_ATTENTION_DURATION_COUNT
       /\ Len(attentionRun) = LOW_ATTENTION_DURATION_COUNT + 1
       /\ AllTrue(attentionRun)

C2_Witness == Has(emitted, "stress") /\ Has(emitted, "low-attention")

\* C3: an active alert stays active on every tick whose value is not past the
\* recovery threshold, and turns inactive on a tick only when the value is
\* past it (stress < 70, attention > 40).
C3_ActiveUntilRecovery ==
  /\ prevStressActive => (highStressAlertActive <=> ~FiniteBelow(newPoint.stress, 70))
  /\ prevAttentionActive =>
       (lowAttentionAlertActive <=> ~FiniteAbove(newPoint.attention, 40))

\* an active stress alert on a tick whose value is 70, the edge of the dead band
C3_Witness ==
  prevStressActive /\ highStressAlertActive /\ newPoint.stress = Num(70)

C7_ScoresInRange ==
  nUpdates >= 1 =>
    /\ InRange0to100(lastPoint.attention)
    /\ InRange0to100(lastPoint.stress)
    /\ InRange0to100(lastPoint.curiosity)

\* C8 as claimed: a non-finite measurement given to a filter that holds a
\* finite estimate is rejected: the estimate (the value returned) and the
\* covariance are those before the call.
C8_NonFiniteRejected ==
  (kfCalls >= 1 /\ IsFinite(kfPrev.x) /\ ~IsFinite(kfIn)) =>
    (kf.x = kfPrev.x /\ kf.cov = kfPrev.cov)

\* C9: the first call filter(m) on a new filter, m finite, returns exactly m
\* and leaves the covariance at the measurement noise, whatever the noise
\* constants.
C9_FirstCallSeeds ==
  (kfCalls = 1 /\ IsFinite(kfIn)) => (kf.x = kfIn /\ kf.cov = kf.Q)

\* new KalmanFilter(0.1, 5).filter(42) has returned 42
C9_Witness ==
  /\ kfCalls = 1
  /\ kf.R = Fin(100) /\ kf.Q = Num(5)
  /\ kfIn = Num(42)
  /\ kf.x = Num(42)

\* a lies between b and c, ends included
Between(a, b, c) ==
  /\ IsFinite(a) /\ IsFinite(b) /\ IsFinite(c)
  /\ \/ (b.v <= a.v /\ a.v <= c.v)
     \/ (c.v <= a.v /\ a.v <= b.v)

\* C15: once a filter is seeded, every call with the same measurement m
\* returns an estimate between the previous estimate and m, so |estimate - m|
\* does not increase; with noise 0.1 and 5, a finite seed and 50 such calls
\* the estimate is within 0.5 of m.
C15_ConstantMeasurementConverges ==
  /\ (kfRun >= 1 /\ IsFinite(kfPrev.x)) =>
       /\ Between(kf.x, kfPrev.x, kfIn)
       /\ Abs(kf.x.v - kfIn.v) <= Abs(kfPrev.x.v - kfIn.v)
  /\ (kfCalls = 2 /\ kfRun + 1 >= 50 /\ IsFinite(kfSeed) /\ kf.R = Fin(100) /\ kf.Q = Num(5)) =>
       (IsFinite(kf.x) /\ Abs(kf.x.v - kfIn.v) <= 500)

\* seeded with 0, then 100 fed 50 times: the estimate has moved off the seed
C15_Witness ==
  /\ kfCalls = 2 /\ kfRun + 1 = 50
  /\ kfSeed = Num(0) /\ kfIn = Num(100)
  /\ kf.R = Fin(100) /\ kf.Q = Num(5)
  /\ FGt(kf.x, Num(0))

(***************************************************************************)
(* The Dashboard loop.                                                     *)
(***************************************************************************)
\* C5 as claimed: ticks of the one subject never overlap: a tick due while
\* another is still awaiting its detection is dropped, so at most one
\* analyzeBiometrics call is in flight.
C5_AtMostOneTickInFlight == pending <= 1

(***************************************************************************)
(* determineBodyLanguage.                                                  *)
(***************************************************************************)
\* the decision table of the specification, first match wins
BodyLanguageTable(a) ==
  IF a.isSpeaking THEN "Gesturing"
  ELSE IF a.stress.v > 75 * SCALE /\ a.activity.v > 30 * SCALE THEN "Fidgeting"
  ELSE IF a.stress.v > 75 * SCALE /\ a.activity.v < 10 * SCALE THEN "Arms Crossed"
  ELSE IF a.attention.v > 80 * SCALE /\ a.curiosity.v > 70 * SCALE THEN "Leaning In"
  ELSE IF 15 * SCALE < a.activity.v /\ a.activity.v < 40 * SCALE
            /\ a.attention.v > 60 * SCALE THEN "Nodding"
  ELSE IF a.attention.v < 40 * SCALE /\ a.stress.v < 50 * SCALE
            /\ a.activity.v < 10 * SCALE THEN "Slouching"
  ELSE "Listening"

\* C10: determineBodyLanguage returns the tag of the first matching rule of
\* the table: Gesturing, Fidgeting, Arms Crossed, Leaning In, Nodding,
\* Slouching, else Listening; stress 80, activity 35, attention 90,
\* curiosity 80, not speaking is Fidgeting.
C10_FirstMatchingRule ==
  /\ bodyTag = BodyLanguageTable(bodyArgs)
  /\ (bodyArgs = [isSpeaking |-> FALSE, activity |-> Num(35), stress |-> Num(80),
                  attention |-> Num(90), curiosity |-> Num(80)]) => bodyTag = "Fidgeting"

C10_Witness ==
  /\ bodyArgs = [isSpeaking |-> FALSE, activity |-> Num(35), stress |-> Num(80),
                 attention |-> Num(90), curiosity |-> Num(80)]
  /\ bodyTag = "Fidgeting"

(***************************************************************************)
(* Tracking boxes (analyzeFrame).                                          *)
(***************************************************************************)
BoxInside(box) ==
  /\ IsFinite(box.x) /\ IsFinite(box.y)
  /\ 0 <= box.x.v /\ box.x.v <= 100 * SCALE - box.w.v
  /\ 0 <= box.y.v /\ box.y.v <= 100 * SCALE - box.h.v

\* C6 as claimed: after any sequence of ticks, in any mode, the tracking box
\* of every slot satisfies 0 <= x <= 100 - w and 0 <= y <= 100 - h.
C6_BoxContained == \A idx \in Slots : BoxInside(participants[idx].box)

(***************************************************************************)
(* The heatmap (analyzeFrame).                                             *)
(***************************************************************************)
\* C11: every heatmap cell is in [0,100] after every tick: decay never makes
\* a cell negative and accumulation never raises a cell above 100.
C11_CellsInRange ==
  \A i \in 1..Len(hm) : 0 <= hm[i] /\ hm[i] <= 100 * SCALE

\* a frame with motion took a cell that decay and the additions would have
\* carried past 100 to exactly 100
C11_Witness ==
  /\ hmMoved
  /\ \E i \in 1..Len(hm) :
       /\ hm[i] = 100 * SCALE
       /\ DecayHeatmap(hmBefore)[i] + 4 * 2 * 4 * SCALE > 100 * SCALE
       /\ hmBefore[i] > 0

\* 100 * 0.96^n in thousandths, rounded down
DecayTable == << 96000, 92160, 88473, 84934, 81537, 78275, 75144, 72138, 69253 >>

\* C12 as claimed: after n frames without motion a cell that held 100 holds
\* at most 100 * 0.96^n.
C12_AtMostExactDecay ==
  (~hmMoved /\ hmQuiet > 0) => \A i \in hmFull : hm[i] <= DecayTable[hmQuiet]

\* C12: on a frame without motion every cell is its old value times 0.96,
\* rounded as the grid stores it, and nothing is added; the cells do not
\* increase and are never negative; a cell that held 100 holds 100 * 0.96^n
\* after n such frames to within the roundings of the n stores.
C12_DecayOnQuietFrames ==
  (~hmMoved /\ hmQuiet > 0) =>
    /\ \A i \in 1..Len(hm) :
         /\ hm[i] = RDiv(hmBefore[i] * 960, SCALE)
         /\ hm[i] <= hmBefore[i]
         /\ hm[i] >= 0
    /\ \A i \in hmFull :
         /\ hm[i] <= DecayTable[hmQuiet] + hmQuiet
         /\ hm[i] >= DecayTable[hmQuiet] - hmQuiet

C12_Witness ==
  /\ ~hmMoved
  /\ hmQuiet = 3
  /\ hmFull # {}

(***************************************************************************)
(* Raw scores (CognitiveModel.update).                                     *)
(***************************************************************************)
\* C13: the stress baseline after the blink-rate step is 60 when
\* blinkRate > 30, 45 when 20 < blinkRate <= 30, 40 when blinkRate < 5 and
\* 30 when 5 <= blinkRate <= 20; 31 gives 60, 30 and 21 give 45, 20 gives 30.
C13_BlinkRateSteps ==
  LET b == rawInput.blinkRate.v
  IN  /\ b > 30 * SCALE => rawStress = Num(60)
      /\ (20 * SCALE < b /\ b <= 30 * SCALE) => rawStress = Num(45)
      /\ b < 5 * SCALE => rawStress = Num(40)
      /\ (5 * SCALE <= b /\ b <= 20 * SCALE) => rawStress = Num(30)
      /\ rawInput.blinkRate = Num(31) => rawStress = Num(60)
      /\ rawInput.blinkRate = Num(30) => rawStress = Num(45)
      /\ rawInput.blinkRate = Num(21) => rawStress = Num(45)
      /\ rawInput.blinkRate = Num(20) => rawStress = Num(30)

C13_Witness == rawInput.blinkRate = Num(30) /\ rawStress = Num(45)

\* C14 as claimed: raw attention is clamped to [0,100]; it is exactly 100
\* with yaw = 0, pitch = 5 and ear >= 0.20, and at most 50 whenever
\* ear < 0.20.
C14_RawAttentionFormula ==
  /\ InRange0to100(rawAttention)
  /\ (rawInput.yaw = Num(0) /\ rawInput.pitch = Num(5) /\ ~FLt(rawInput.ear, Fin(200)))
       => rawAttention = Num(100)
  /\ FLt(rawInput.ear, Fin(200)) => (IsFinite(rawAttention) /\ rawAttention.v <= 50 * SCALE)

(***************************************************************************)
(* Participant scores (analyzeFrame).                                      *)
(***************************************************************************)
\* C16: after a tracker tick of either branch the activity, attention,
\* stress, curiosity and engagement of a participant are in [0,100].
C16_ParticipantScoresInRange ==
  /\ InRange0to100(pm.activity)
  /\ InRange0to100(pm.attention)
  /\ InRange0to100(pm.stress)
  /\ InRange0to100(pm.curiosity)
  /\ InRange0to100(pm.engagementScore)

\* a demo tick with high draws has clamped the attention of a silent
\* participant, 99 before the tick, at 100
C16_Witness ==
  /\ pmSteps = 1
  /\ pmMode = "demo"
  /\ ~pm.isSpeaking
  /\ pm.attention = Num(100)

\* the number of breaching ticks that end the recorded window of ticks
TrailingRun(s) ==
  CHOOSE k \in 0..Len(s) :
    /\ \A i \in (Len(s) - k + 1)..Len(s) : s[i]
    /\ (k = Len(s) \/ ~s[Len(s) - k])

SmallerOf(a, b) == IF a < b THEN a ELSE b

\* C17: each counter is the length of the current run of consecutive
\* breaching ticks, whether or not the alert is active: a tick whose value
\* breaches the threshold adds one to the counter, every other tick clears
\* it, so over the recorded window of ticks the counter equals the number of
\* breaching ticks that end the window
C17_CounterIsRunLength ==
  /\ Len(stressRun) > 0 =>
        /\ highStressCounter =
             (IF StressBreached(newPoint) THEN prevStressCounter + 1 ELSE 0)
        /\ lowAttentionCounter =
             (IF AttentionBreached(newPoint) THEN prevAttentionCounter + 1 ELSE 0)
  /\ SmallerOf(highStressCounter, Len(stressRun)) = TrailingRun(stressRun)
  /\ SmallerOf(lowAttentionCounter, Len(attentionRun)) = TrailingRun(attentionRun)

\* the stress counter keeps counting past the raise while the alert is
\* active, and the attention counter has just been cleared from a run of two
C17_Witness ==
  /\ highStressAlertActive
  /\ prevStressActive
  /\ highStressCounter = STRESS_ALERT_DURATION_COUNT + 2
  /\ prevAttentionCounter = 2
  /\ lowAttentionCounter = 0

\* C18: when the value has been past the high threshold on each of the last
\* duration + 1 ticks, the alert is active and its notification has been raised,
\* and when the alert was not active before the tick on which the run reaches
\* duration + 1 ticks, the notification is raised on that very tick.
C18_SustainedBreachRaises ==
  /\ (Len(stressRun) = STRESS_ALERT_DURATION_COUNT + 1 /\ AllTrue(stressRun)) =>
       /\ highStressAlertActive
       /\ stressRaises = 1
       /\ (~prevStressActive => Has(emitted, "stress"))
  /\ (Len(attentionRun) = LOW_ATTENTION_DURATION_COUNT + 1 /\ AllTrue(attentionRun)) =>
       /\ lowAttentionAlertActive
       /\ attentionRaises = 1
       /\ (~prevAttentionActive => Has(emitted, "low-attention"))

\* the fifth tick in a row above 85 with the stress alert inactive until then:
\* the notification is raised and the alert is active
C18_Witness ==
  /\ Len(stressRun) = STRESS_ALERT_DURATION_COUNT + 1
  /\ AllTrue(stressRun)
  /\ highStressCounter = STRESS_ALERT_DURATION_COUNT + 1
  /\ ~prevStressActive
  /\ highStressAlertActive
  /\ Has(emitted, "stress")

\* C19: every participant's centroid is computed after the ingestion of its
\* own frame has completed, and from the grid exactly as that ingestion left
\* it, never from a grid the ingestion of a later frame has modified.
C19_CentroidReadsOwnTickGrid ==
  \A i \in 1..Len(centroidReads) : centroidReads[i].read = centroidReads[i].left

\* C20: the flow bonus of an update call is decided from the smoothed
\* attention and stress the model stored at the end of the call before it (the
\* prior triple), not from the values smoothed during the call: the curiosity
\* filter has been fed the raw curiosity computed from the prior triple.
C20_FlowBonusFromPriorTriple ==
  nUpdates > 0 =>
    model.curiosityFilter =
      KalmanFilter(prevModel.curiosityFilter,
                   Clamp0to100(CuriosityBase(lastInput, prevModel.state.attention,
                                             prevModel.state.stress)))

(***************************************************************************)
(* Stopping the tick source.                                               *)
(***************************************************************************)
\* C21: once the Dashboard has unmounted and its interval is cleared, no later
\* step updates the model, the alert counters or flags, or produces a data
\* point, a tick in progress at the unmount included.
C21_NoTickAfterStop ==
  [][~mounted => UNCHANGED << modelVars, alertVars >>]_vars

(***************************************************************************)
(* Recovery from a bad sample.                                             *)
(***************************************************************************)
FiniteInput(input) ==
  /\ IsFinite(input.yaw) /\ IsFinite(input.pitch) /\ IsFinite(input.ear)
  /\ IsFinite(input.blinkRate)
  /\ \A e \in DOMAIN input.expressionConfidence : IsFinite(input.expressionConfidence[e])

\* C22: a non-finite sample never leaves the model stuck: after every update
\* call on a finite feature vector, whatever came before it, the three
\* estimates are finite and the returned scores are in [0,100], so the model
\* has recovered one tick after the bad sample.
C22_RecoversAfterBadSample ==
  (nUpdates >= 1 /\ FiniteInput(lastInput)) =>
    /\ IsFinite(model.attentionFilter.x)
    /\ IsFinite(model.stressFilter.x)
    /\ IsFinite(model.curiosityFilter.x)
    /\ InRange0to100(lastPoint.attention)
    /\ InRange0to100(lastPoint.stress)
    /\ InRange0to100(lastPoint.curiosity)

\* a finite sample, a sample with yaw NaN that left the attention estimate
\* NaN, then a finite sample: the attention is a number in [0,100] again
C22_Witness ==
  /\ nUpdates = 3
  /\ IsNaN(prevModel.state.attention)
  /\ IsFinite(prevModel.attentionFilter.cov)
  /\ FiniteInput(lastInput)
  /\ InRange0to100(lastPoint.attention)

(***************************************************************************)
(* The tracker tick.                                                       *)
(***************************************************************************)
\* the step is an analyzeFrame call that reads a frame with no previous frame:
\* the call onloadedmetadata makes on a playing video, or a callback that
\* finds prevFrameRef null
TickWithoutPreviousFrame ==
  \/ ~processingRef /\ processingRef' /\ ~isDemoRef' /\ ~videoPaused'
  \/ /\ processingRef /\ ~isDemoRef /\ ~videoPaused /\ prevFrameRef = << >>
     /\ nFrames' = nFrames + 1

\* C23: a tick with no previous frame only decays the heatmap (no cell is
\* incremented), gives every slot a normalized activity of 0 (the activity
\* becomes 0.8 of the old one and nobody speaks) and stores the current frame
\* as the previous frame of the next tick.
C23_FirstTickOnlyDecays ==
  [][TickWithoutPreviousFrame =>
       /\ heatmapRef' = DecayHeatmap(IF heatmapRef = << >> THEN NewHeatmap ELSE heatmapRef)
       /\ prevFrameRef' \in Frames
       /\ \A idx \in Slots :
            /\ participants'[idx].activity = FMul(participants[idx].activity, Fin(800))
            /\ ~participants'[idx].isSpeaking]_vars

\* the first tick of a capture has read an all bright frame with loud or no
\* audio: the frame is stored, no cell is heated and no slot is active
C23_Witness ==
  /\ nFrames = 1
  /\ processingRef /\ ~isDemoRef /\ ~videoPaused
  /\ prevFrameRef = [i \in 1..NumCells |-> "bright"]
  /\ heatmapRef = NewHeatmap
  /\ \A idx \in Slots : participants[idx].activity = Num(0)

\* the slot's normalized activity min(100, 3 motion / pixels) is above n
ActivityAbove(q, n) == q.pixels > 0 /\ 3 * q.motion > n * q.pixels

WeightedEngagement(p) ==
  450 * p.attention.v + 350 * p.curiosity.v
    + 200 * (IF 2 * p.activity.v > 100 * SCALE THEN 100 * SCALE ELSE 2 * p.activity.v)

\* the rounding of the three products, half a thousandth each, in millionths
EngagementRounding == 3 * (SCALE \div 2)

\* C25: after a tick of either branch the engagement of a slot that is not
\* speaking is 0.45 attention + 0.35 curiosity + 0.20 min(100, 2 activity) of
\* the scores smoothed on that tick, and the engagement of a speaking slot is
\* at least 95 (and at most 100) whatever its other scores.
C25_EngagementFormula ==
  pmSteps > 0 =>
    /\ pm.engagementScore.k = "fin"
    /\ IF pm.isSpeaking
         THEN pm.engagementScore.v >= 95 * SCALE /\ pm.engagementScore.v <= 100 * SCALE
       ELSE /\ pm.engagementScore.v * SCALE - WeightedEngagement(pm) <= EngagementRounding
            /\ WeightedEngagement(pm) - pm.engagementScore.v * SCALE <= EngagementRounding

\* two ticks have left a slot silent with differing attention and curiosity
\* and an engagement under the speaking constant
C25_Witness ==
  /\ pmSteps = 2
  /\ ~pm.isSpeaking
  /\ pm.attention # pm.curiosity
  /\ pm.engagementScore.v < 95 * SCALE
  /\ pm.engagementScore.v > 0

\* the distance of a coordinate from the slot's default, in thousandths
FromDefault(c, d) == IF c.v >= d.v THEN c.v - d.v ELSE d.v - c.v

\* the step moves the coordinate as 0.8 of it plus 0.2 of a target that is
\* 2% of the way to the default, to within a thousandth, and not away from
\* the default
DriftsToDefault(c, cNext, d) ==
  /\ cNext.v * SCALE - (c.v * SCALE + 4 * (d.v - c.v)) <= SCALE
  /\ (c.v * SCALE + 4 * (d.v - c.v)) - cNext.v * SCALE <= SCALE
  /\ FromDefault(cNext, d) <= FromDefault(c, d)

\* C26 as claimed: on a tick whose region heat is not above 50 the target of
\* the box is 2% of the way from the box to the slot's default position, and
\* the box does not move away from the default.
C26_DriftTowardDefault ==
  [][pmMode' = "drift" =>
       /\ DriftsToDefault(pm.box.x, pm'.box.x, quadrantDefaults[pmIdx].x)
       /\ DriftsToDefault(pm.box.y, pm'.box.y, quadrantDefaults[pmIdx].y)]_vars

\* the heat of the slot's quadrant is a valid tracking signal
LiveCentroid(idx, heatmap) == SumOver(QuadrantCells(idx), heatmap, "heat") > 50 * SCALE

\* c is 0.8 of before plus 0.2 of target, to within a thousandth
Blend8020(before, target, c) ==
  /\ c.v * SCALE - (800 * before.v + 200 * target.v) <= SCALE
  /\ (800 * before.v + 200 * target.v) - c.v * SCALE <= SCALE

\* c has moved from before by more than 0.2 of the way to target
FasterThan8020(before, target, c) ==
  IF target.v >= before.v
    THEN (c.v - before.v) * SCALE > 200 * (target.v - before.v) + SCALE
  ELSE (before.v - c.v) * SCALE > 200 * (before.v - target.v) + SCALE

\* C27 as claimed: after a capture tick the box is 0.8 of the previous
\* position plus 0.2 of the target when the target follows the default drift,
\* and a blend with a strictly larger weight on the target when the target
\* comes from a live centroid.
C27_FasterOnLiveCentroid ==
  (pmSteps > 0 /\ pmMode = "real") =>
    LET target == TargetBox(pmPrev, pmIdx, pmHeat)
    IN  IF LiveCentroid(pmIdx, pmHeat)
          THEN (target.x # pmPrev.box.x =>
                  FasterThan8020(pmPrev.box.x, target.x, pm.box.x))
        ELSE /\ Blend8020(pmPrev.box.x, target.x, pm.box.x)
             /\ Blend8020(pmPrev.box.y, target.y, pm.box.y)

\* C27 as amended: after a capture tick the box is 0.8 of the previous
\* position plus 0.2 of the target, whether the target follows the default
\* drift or comes from a live centroid.
C27_SameBlendForBothTargets ==
  (pmSteps > 0 /\ pmMode = "real") =>
    LET target == TargetBox(pmPrev, pmIdx, pmHeat)
    IN  /\ Blend8020(pmPrev.box.x, target.x, pm.box.x)
        /\ Blend8020(pmPrev.box.y, target.y, pm.box.y)

\* a capture tick with a live centroid away from the box has moved the box
C27_Witness ==
  /\ pmSteps = 1
  /\ pmMode = "real"
  /\ LiveCentroid(pmIdx, pmHeat)
  /\ TargetBox(pmPrev, pmIdx, pmHeat).x # pmPrev.box.x
  /\ pm.box.x # pmPrev.box.x

(***************************************************************************)
(* The frame loop.                                                         *)
(***************************************************************************)
\* C28 as claimed: under every interleaving of the starts, the animation
\* frames and stopCapture, requestAnimationFrame holds at most one analyzeFrame
\* callback, so the participants are advanced at most once per animation frame.
C28_AtMostOneLoop == scheduled <= 1

(***************************************************************************)
(* The content script.                                                     *)
(***************************************************************************)
\* C29 as claimed: under every interleaving of clicks at most one analysis
\* interval and one camera stream exist, and when the analysis is stopped no
\* interval keeps firing and no acquired stream is left running.
C29_OneIntervalOneStream ==
  /\ Cardinality(liveIntervals) <= 1
  /\ Cardinality(liveStreams) <= 1
  /\ ~isAnalyzing => (liveIntervals = {} /\ liveStreams = {})

(***************************************************************************)
(* The Dashboard's windows.                                                *)
(***************************************************************************)
\* the n most recent of the points that have arrived, oldest first
MostRecent(window, n) ==
  /\ Len(window) = SmallerOf(arrived, n)
  /\ \A i \in 1..Len(window) : window[i] = arrived - Len(window) + i

\* C30: after any number of processed points the live window holds at most
\* MAX_DATA_POINTS (30) points and the history at most MAX_HISTORY_POINTS
\* (5000); each holds the most recent points in arrival order, and every new
\* point is appended to both.
C30_WindowsHoldMostRecent ==
  /\ Len(data) <= MAX_DATA_POINTS
  /\ Len(allData) <= MAX_HISTORY_POINTS
  /\ MostRecent(data, MAX_DATA_POINTS)
  /\ MostRecent(allData, MAX_HISTORY_POINTS)
  /\ arrived > 0 => (data[Len(data)] = arrived /\ allData[Len(allData)] = arrived)

\* both windows full and a point dropped from each
C30_Witness ==
  /\ arrived > MAX_HISTORY_POINTS
  /\ Len(data) = MAX_DATA_POINTS
  /\ Len(allData) = MAX_HISTORY_POINTS
  /\ allData[1] > 1

====
